---- MODULE Spec2Model ----
(***************************************************************************)
(* The client-side datastore access layer of                              *)
(* google/appengine/api/datastore.py: the top-level operations Put, Get   *)
(* and Delete, the transaction registries _txes and _tx_entity_groups,    *)
(* and the retry loop of RunInTransaction.  The remote store is the      *)
(* environment: each wire call is answered OK or with an error code.     *)
(***************************************************************************)
EXTENDS Integers, Sequences, FiniteSets, TLC

\* ---------------------------------------------------------------- bounds
MaxOps  == 2   \* calls the user function makes in one invocation
MaxKeys == 2   \* keys or entities in one Put/Get/Delete argument
MaxFilters == 2   \* inequality filters a Query is given
MaxInserts == 3   \* filters a Query is given for the first time
MaxHinted  == 1   \* the same, once it has a hint, an ancestor or a cached count
MaxResults == 45  \* entities in the result set of a query
MaxNexts   == 4   \* Next calls sent for one Iterator
MaxProps   == 2   \* properties of a wire entity; elements of a list value
MaxConflicts == 1 \* Commit calls of one flow answered CONCURRENT_TRANSACTION
MaxDefaults  == 1 \* filters a Query holds that only setdefault gave it

\* ------------------------------------------------------ program constants
TRANSACTION_RETRIES == 10
BUFFER_SIZE == 20   \* Iterator._BUFFER_SIZE
NoFrame     == 0   \* None, the result of a stack walk that finds no frame
UnsetHandle == 0   \* handle field of a Transaction message nobody filled in

\* ---------------------------------------------------------- input domains
Groups   == {"A", "B"}                   \* entity groups of the keys used
Values   == {"v1", "v2"}                 \* values the user function returns
OK       == "OK"
WireCodes == {"BAD_REQUEST", "CONCURRENT_TRANSACTION", "INTERNAL_ERROR",
              "NEED_INDEX", "TIMEOUT", "UNKNOWN_CODE"}
Responses == {OK} \cup WireCodes
NoValue  == "None"
NoExc    == "none"

\* The sizes of the result sets.
Sizes == {0, 1, BUFFER_SIZE, MaxResults}

\* Answers to Put, Get, Delete and Rollback that the model draws: the other
\* codes take the same path through the code.
StoreResponses == {OK, "BAD_REQUEST"}

\* A key, or an entity, is its entity group.  An argument is a single object
\* or a sequence of objects; `complete` tells whether every key of it has an
\* id or a name.
ItemLists == UNION {[1..n -> Groups] : n \in 0..MaxKeys}
Args == {a \in [multiple : BOOLEAN, items : ItemLists, complete : BOOLEAN] :
           /\ ~a.multiple => Len(a.items) = 1
           /\ Len(a.items) = 0 => a.complete}
\* Entities need no complete key.
Entities == {a \in Args : a.complete}

VARIABLES
  stack,             \* interpreter call stack, outermost frame first
  pc,                \* where the innermost RunInTransaction stands
  frame,             \* local `frame` of RunInTransaction
  i,                 \* loop variable of the retry loop
  txes,              \* _txes: frame -> transaction handle
  tx_entity_groups,  \* _tx_entity_groups: frame -> entity group
  result,            \* local `result` of RunInTransaction
  exc,               \* the exception the user function let escape
  opsDone,           \* calls made by the running invocation of the function
  wire,              \* wire calls of the current attempt, in order
  lastOp,            \* the most recent top-level call and what it did
  fnCalls,           \* invocations of the user function in this run
  commits,           \* Commit calls sent in this run
  conflicts,         \* Commit calls answered CONCURRENT_TRANSACTION
  rollbacks,         \* Rollback calls sent in this run
  lastCommit,        \* the last Commit of this run: handle sent, answer
  lastRollback,      \* the last Rollback of this run: handle sent, answer
  fnValue,           \* value returned by the last invocation of the function
  outcome,           \* how the last RunInTransaction ended
  io,                \* a Put or Get call: its argument, the answer, its result
  q,                 \* a Query object: its filters, orderings, cached count
  qcall,             \* the most recent call on the Query and what it did
  given,             \* what the Query was given: filters held, last orderings
  it,                \* an Iterator: its prefetch buffer, its more_results flag
  itcall,            \* the most recent call on the Iterator and what it did
  results,           \* the result set of the Iterator's query, on the server
  conv,              \* an Entity conversion: its argument and its result
  fault,             \* a store call and the answer it got: the error raised
  flows              \* two flows of control, each calling RunInTransaction

\* The registries, the call stack and the run of RunInTransaction.
storeVars == <<stack, pc, frame, i, txes, tx_entity_groups, result, exc,
               opsDone, wire, lastOp, fnCalls, commits,
               conflicts, rollbacks, lastCommit, lastRollback, fnValue, outcome>>
\* The Query object.
queryVars == <<q, qcall, given>>

\* An Iterator, the call made on it last and the result set behind it.
iterVars == <<it, itcall, results>>

vars == <<storeVars, io, queryVars, iterVars, conv, fault, flows>>

txVars == <<frame, i, result, fnCalls, commits, conflicts, rollbacks,
            lastCommit, lastRollback, fnValue, outcome>>



\* ------------------------------------------------------------ call stack
Frame(file, name, id) == [file |-> file, name |-> name, id |-> id]
AppFrame       == Frame("app.py", "main", 0)
FunctionFrame  == Frame("app.py", "function", 0)
RunFrame(id)   == Frame("datastore.py", "RunInTransaction", id)
CalleeFrame(n) == Frame("datastore.py", n, 0)

\* The walk of _FindTransactionInStack from frame n of stk outwards.
RECURSIVE WalkStack(_, _)
WalkStack(stk, n) ==
  IF n = 0 THEN NoFrame
  ELSE IF stk[n].file = "datastore.py" /\ stk[n].name = "RunInTransaction"
       THEN stk[n].id
       ELSE WalkStack(stk, n - 1)

\* Faulty variant: only the caller's caller is inspected, the walk outwards is lost.
FindInCallerOnly(stk) ==
  IF Len(stk) >= 2 /\ stk[Len(stk) - 1].name = "RunInTransaction"
  THEN stk[Len(stk) - 1].id
  ELSE NoFrame

\* _FindTransactionInStack called by the innermost frame of stk: the walk
\* starts at the caller's caller (frame.f_back.f_back).
FindTransactionInStack(stk) == WalkStack(stk, Len(stk) - 1)

\* ----------------------------------------------------------------- errors
\* Faulty variant: every code gives the generic error.
ToGenericError(code) == "Error"

\* _ToDatastoreError: wire error code -> error raised to the caller.
ToDatastoreError(code) ==
  CASE code = "BAD_REQUEST"            -> "BadRequestError"
    [] code = "CONCURRENT_TRANSACTION" -> "TransactionFailedError"
    [] code = "INTERNAL_ERROR"         -> "InternalError"
    [] code = "NEED_INDEX"             -> "NeedIndexError"
    [] code = "TIMEOUT"                -> "Timeout"
    [] OTHER                           -> "Error"

\* ------------------------------------------------------------- wire calls
\* tx: the transaction field of the request (<<>> when it has none); grps: the
\* set of entity groups of its keys; ret: the handle a BeginTransaction
\* returned.
Call(m, tx, grps, ret) == [m |-> m, tx |-> tx, grps |-> grps, ret |-> ret]
GroupsOf(items) == {items[n] : n \in 1..Len(items)}

\* f with x mapped to v
Assign(f, x, v) == [y \in DOMAIN f \cup {x} |-> IF y = x THEN v ELSE f[y]]
\* f without x
Remove(f, x) == [y \in DOMAIN f \ {x} |-> f[y]]

\* What a top-level operation did: the error it raised (NoExc if none), the
\* registries it leaves, the wire calls it sent.
Outcome(e, T, G, calls) ==
  [exc |-> e, txes |-> T, groups |-> G, calls |-> calls]

\* Faulty variant: the entity groups are never told apart.
GroupsNeverDiffer(orig_group, this_group) == FALSE

\* `orig_group != this_group` in _MaybeSetupTransaction.
GroupsDiffer(orig_group, this_group) == orig_group # this_group

\* _MaybeSetupTransaction called by the innermost frame of stk for a request
\* whose first key or entity lies in this_group.  reqtx is the transaction
\* field it leaves in the request: <<>> when it sets none.  h is the handle
\* the store returns if BeginTransaction is sent and succeeds.
MaybeSetupTransaction(stk, this_group, beginOK, T, G, h) ==
  LET fr == FindTransactionInStack(stk \o <<CalleeFrame("_MaybeSetupTransaction")>>)
  IN IF fr = NoFrame
     THEN [exc |-> NoExc, txes |-> T, groups |-> G, calls |-> <<>>, reqtx |-> <<>>]
     ELSE IF fr \notin DOMAIN T
     THEN IF beginOK
          THEN [exc |-> NoExc, txes |-> Assign(T, fr, h),
                groups |-> Assign(G, fr, this_group),
                calls |-> <<Call("BeginTransaction", <<>>, <<>>, <<h>>)>>, reqtx |-> <<h>>]
          ELSE [exc |-> "ApplicationError", txes |-> Assign(T, fr, UnsetHandle),
                groups |-> Assign(G, fr, this_group),
                calls |-> <<Call("BeginTransaction", <<>>, <<>>, <<>>)>>, reqtx |-> <<>>]
     ELSE IF GroupsDiffer(G[fr], this_group)
     THEN [exc |-> "BadRequestError", txes |-> T, groups |-> G,
           calls |-> <<>>, reqtx |-> <<>>]
     ELSE [exc |-> NoExc, txes |-> T, groups |-> G, calls |-> <<>>, reqtx |-> <<T[fr]>>]

\* The request is dispatched after _MaybeSetupTransaction; a wire error is
\* converted by _ToDatastoreError.
Dispatch(m, items, s, resp) ==
  IF s.exc # NoExc
  THEN Outcome(s.exc, s.txes, s.groups, s.calls)
  ELSE Outcome(IF resp = OK THEN NoExc ELSE ToDatastoreError(resp),
               s.txes, s.groups,
               s.calls \o <<Call(m, s.reqtx, GroupsOf(items), <<>>)>>)

SameGroup(items) == \A n \in 1..Len(items) : items[n] = items[1]

\* Faulty variant: the loop over the entities' groups is missing.
PutUnchecked(stk, arg, beginOK, resp, T, G, h) ==
  IF Len(arg.items) = 0 THEN Outcome("IndexError", T, G, <<>>)
  ELSE Dispatch("Put", arg.items,
                MaybeSetupTransaction(stk \o <<CalleeFrame("Put")>>,
                                      arg.items[1], beginOK, T, G, h),
                resp)

\* Put(entities), called by the innermost frame of stk.
Put(stk, arg, beginOK, resp, T, G, h) ==
  LET entities == arg.items
      me == stk \o <<CalleeFrame("Put")>>
  IN IF Len(entities) = 0 THEN Outcome("IndexError", T, G, <<>>)
     ELSE IF ~SameGroup(entities) THEN Outcome("BadRequestError", T, G, <<>>)
     ELSE Dispatch("Put", entities,
                   MaybeSetupTransaction(me, entities[1], beginOK, T, G, h),
                   resp)

\* Get(keys), called by the innermost frame of stk.
Get(stk, arg, beginOK, resp, T, G, h) ==
  LET keys == arg.items
      me == stk \o <<CalleeFrame("Get")>>
  IN IF ~arg.complete THEN Outcome("BadKeyError", T, G, <<>>)
     ELSE IF Len(keys) = 0 THEN Outcome("IndexError", T, G, <<>>)
     ELSE Dispatch("Get", keys,
                   MaybeSetupTransaction(me, keys[1], beginOK, T, G, h),
                   resp)

\* Faulty variant: the loop over the keys' groups is missing.
DeleteUnchecked(stk, arg, beginOK, resp, T, G, h) ==
  IF ~arg.complete THEN Outcome("BadKeyError", T, G, <<>>)
  ELSE IF Len(arg.items) = 0 THEN Outcome("IndexError", T, G, <<>>)
  ELSE Dispatch("Delete", arg.items,
                MaybeSetupTransaction(stk \o <<CalleeFrame("Delete")>>,
                                      arg.items[1], beginOK, T, G, h),
                resp)

\* Delete(keys), called by the innermost frame of stk.
Delete(stk, arg, beginOK, resp, T, G, h) ==
  LET keys == arg.items
      me == stk \o <<CalleeFrame("Delete")>>
  IN IF ~arg.complete THEN Outcome("BadKeyError", T, G, <<>>)
     ELSE IF Len(keys) = 0 THEN Outcome("IndexError", T, G, <<>>)
     ELSE IF ~SameGroup(keys) THEN Outcome("BadRequestError", T, G, <<>>)
     ELSE Dispatch("Delete", keys,
                   MaybeSetupTransaction(me, keys[1], beginOK, T, G, h),
                   resp)


\* -------------------------------------------------------------- the state
\* lastOp: the call, the transaction scope it was made in, the entity group
\* of its first object and of all its objects, the registry entries of the
\* scope before it, the error it raised and the wire calls it sent.
NoEntry == [tx |-> <<>>, grp |-> <<>>]
NoOp == [op |-> "none", scope |-> NoFrame, first |-> <<>>, grps |-> {},
         before |-> NoEntry, exc |-> NoExc, calls |-> <<>>]
NoCall == [tx |-> <<>>, resp |-> "none", begun |-> <<>>]
\* outcome: how RunInTransaction ended (returned a value, raised an error),
\* the error that escaped the user function and what the BeginTransaction
\* calls of the last attempt returned.
Ended(kind, value, e) ==
  [kind |-> kind, value |-> value, exc |-> e, cause |-> NoExc, begun |-> <<>>]

\* What a call returned: a list, a single object, or nothing.
Returned(shape, items) == [shape |-> shape, items |-> items]
\* io: the Put or Get call made last: whether its argument was a sequence,
\* the entities or keys passed, whether the store answered the request, the
\* keys or entity slots of the answer, the error raised, the value returned
\* and the entities or keys after the call.
NoIO == [op |-> "none", multiple |-> FALSE, before |-> <<>>,
         answered |-> FALSE, answer |-> <<>>, exc |-> NoExc,
         ret |-> Returned("none", <<>>), after |-> <<>>]
\* Query(kind): no filters, no orderings, nothing cached.  An attribute that
\* is None holds <<>>, one that is set holds <<value>>.
NewQuery ==
  [filters |-> <<>>, filter_order |-> <<>>, filter_counter |-> 0,
   inequality_prop |-> <<>>, inequality_count |-> 0, orderings |-> <<>>,
   cached_count |-> <<>>, hint |-> <<>>, ancestor |-> <<>>]
\* qcall: the method called on the Query, the argument of a set_filter or an
\* order (of a remove_filter: whether the call before it set that filter),
\* the error raised, the wire calls sent and the value returned.
QueryCall(op, arg, e, sent, ret) ==
  [op |-> op, arg |-> arg, exc |-> e, wire |-> sent, ret |-> ret]
NoQueryCall == QueryCall("none", <<>>, NoExc, <<>>, <<>>)

\* given: the filter strings the Query holds, in the order in which the
\* calls added them, and the arguments of the last Order that was accepted.
NothingGiven == [filters |-> <<>>, orderings |-> <<>>]

\* conv: the conversion made last, the entity or protocol buffer it was given,
\* whether assert statements are compiled out (python -O), the protocol
\* buffer built on the way, the error raised and the entity returned.
Converted(op, arg, optimized, pb, e, ret) ==
  [op |-> op, arg |-> arg, optimized |-> optimized, pb |-> pb, exc |-> e,
   ret |-> ret]
NoConversion == Converted("none", <<>>, FALSE, <<>>, NoExc, <<>>)

\* fault: an operation called by the application outside a transaction, its
\* argument, whether it sent its wire call, the store's answer to the call
\* and the error the operation raised.
Faulted(op, arg, sent, code, e) ==
  [op |-> op, arg |-> arg, sent |-> sent, code |-> code, exc |-> e]
NoFault == Faulted("none", <<>>, FALSE, OK, NoExc)

\* Iterator(cursor): nothing prefetched, more results expected.  Before
\* Query.Run has returned one there is no Iterator: the cursor is NoCursor.
NoCursor == 0
Iterator(cursor) == [cursor |-> cursor, buffer |-> <<>>, more_results |-> TRUE]
\* itcall: the method called on the Iterator, its count, the error raised,
\* the counts of the Next calls sent and the entities returned.
IteratorCall(op, count, e, sent, ret) ==
  [op |-> op, count |-> count, exc |-> e, wire |-> sent, ret |-> ret]
NoIteratorCall == IteratorCall("none", 0, NoExc, <<>>, <<>>)
\* results: the number of entities of the result set and how many of them
\* the store has sent; the Next calls sent for the Iterator, whether
\* next_batch sent one, whether every answer held all the entities asked for
\* that the store had left, whether an answer said there are no more results,
\* what the last answer said, the entities next() has returned and the
\* entities either method has returned.
ResultSet(size) ==
  [size |-> size, sent |-> 0, nexts |-> 0, batched |-> FALSE, full |-> TRUE,
   ended |-> FALSE, more |-> TRUE, consumed |-> 0, taken |-> 0]

\* flows[f]: where flow f stands (in the application, in the user function,
\* blocked in BeginTransaction, in the except clause, before Commit, before
\* the next invocation of the function, back in the application), the loop
\* variable and the calls the function has made; the call blocked in
\* BeginTransaction; of the
\* current attempt the group of the call that sent BeginTransaction and the
\* handle the store returned to it; of the last step the group of the first
\* object passed, the error raised and the wire calls sent.
Flows == {1, 2}
FlowState(at, n, ops, pending, pinned, begun, first, e, sent) ==
  [pc |-> at, i |-> n, ops |-> ops,
   pending |-> pending, pinned |-> pinned, begun |-> begun, first |-> first,
   exc |-> e, sent |-> sent]
NoFlows ==
  [f \in Flows |->
     FlowState("app", 0, 0, <<>>, <<>>, <<>>, <<>>, NoExc, <<>>)]

Init ==
  /\ stack = <<AppFrame>>
  /\ pc = "app"
  /\ frame = NoFrame
  /\ i = 0
  /\ txes = <<>>
  /\ tx_entity_groups = <<>>
  /\ result = NoValue
  /\ exc = NoExc
  /\ opsDone = 0
  /\ wire = <<>>
  /\ lastOp = NoOp
  /\ fnCalls = 0
  /\ commits = 0
  /\ conflicts = 0
  /\ rollbacks = 0
  /\ lastCommit = NoCall
  /\ lastRollback = NoCall
  /\ fnValue = NoValue
  /\ outcome = Ended("none", NoValue, NoExc)
  /\ io = NoIO
  /\ q = NewQuery
  /\ given = NothingGiven
  /\ it = Iterator(NoCursor)
  /\ itcall = NoIteratorCall
  /\ results = ResultSet(0)
  /\ conv = NoConversion
  /\ fault = NoFault
  /\ flows = NoFlows
  /\ qcall = NoQueryCall

\* The store hands out a fresh handle with every BeginTransaction: the one
\* it would return to a BeginTransaction sent now.  Handles of invocations
\* that have ended are referenced nowhere, so their numbers are used again.
NewHandle == i + 1

\* The entry of a registry for a frame: <<>> if it has none.
Entry(reg, fr) == IF fr \in DOMAIN reg THEN <<reg[fr]>> ELSE <<>>

\* What the BeginTransaction calls of the log returned, in order.
RECURSIVE BeginRets(_)
BeginRets(log) ==
  IF log = <<>> THEN <<>>
  ELSE (IF log[1].m = "BeginTransaction" THEN <<log[1].ret>> ELSE <<>>)
         \o BeginRets(Tail(log))

\* The handle the BeginTransaction of the current attempt returned.
Begun(log) ==
  LET at == {n \in 1..Len(log) : log[n].m = "BeginTransaction"}
  IN IF at = {} THEN <<>> ELSE log[CHOOSE n \in at : \A k \in at : n <= k].ret

\* The wire log keeps of each call its method and the handle it returned.
Logged(calls) ==
  [n \in 1..Len(calls) |-> [m |-> calls[n].m, ret |-> calls[n].ret]]

\* The first object of an argument, if it has one.
First(items) == IF Len(items) = 0 THEN <<>> ELSE <<items[1]>>

\* A call made by the application (pc = "app") or by the user function
\* (pc = "fn"), which either handles the error the call raises or lets it
\* escape to RunInTransaction.
CanCall == \/ pc = "app"
           \/ pc = "fn" /\ opsDone < MaxOps

\* The answers to BeginTransaction that matter: it is sent by the first
\* call that reaches _MaybeSetupTransaction inside a transaction.
BeginAnswers == IF pc = "fn" /\ frame \notin DOMAIN txes THEN BOOLEAN ELSE {TRUE}
\* Only the user function can let an error escape to RunInTransaction.
Handlers == IF pc = "fn" THEN BOOLEAN ELSE {TRUE}

\* The counters and records of a run describe the most recent call the
\* application made: they start afresh with it.
Afresh ==
  /\ fnCalls' = 0
  /\ commits' = 0
  /\ conflicts' = 0
  /\ rollbacks' = 0
  /\ lastCommit' = NoCall
  /\ lastRollback' = NoCall
  /\ result' = NoValue
  /\ fnValue' = NoValue
  /\ exc' = NoExc

\* The transaction scope the running code is in.
Scope == IF pc = "fn" THEN frame ELSE NoFrame

Called(op, arg, r, caught) ==
  /\ r.exc = NoExc => caught
  /\ txes' = r.txes
  /\ tx_entity_groups' = r.groups
  /\ lastOp' = [op |-> op, scope |-> Scope,
                first |-> First(arg.items), grps |-> GroupsOf(arg.items),
                before |-> [tx |-> Entry(txes, Scope),
                            grp |-> Entry(tx_entity_groups, Scope)],
                exc |-> r.exc, calls |-> r.calls]
  /\ UNCHANGED <<io, queryVars, iterVars, conv, fault, flows>>
  /\ IF pc = "fn"
     THEN /\ opsDone' = opsDone + 1
          /\ wire' = wire \o Logged(r.calls)
          /\ IF caught
             THEN UNCHANGED <<pc, exc, stack>>
             ELSE /\ pc' = "except"
                  /\ exc' = r.exc
                  /\ stack' = SubSeq(stack, 1, Len(stack) - 1)
          /\ UNCHANGED txVars
     ELSE /\ wire' = Logged(r.calls)
          /\ outcome' = Ended("none", NoValue, NoExc)
          /\ Afresh
          /\ UNCHANGED <<opsDone, pc, stack, frame, i>>

DoPut ==
  /\ CanCall
  /\ \E arg \in Entities, beginOK \in BeginAnswers, resp \in StoreResponses,
        caught \in Handlers :
       Called("Put", arg,
              Put(stack, arg, beginOK, resp, txes, tx_entity_groups, NewHandle),
              caught)

DoGet ==
  /\ CanCall
  /\ \E arg \in Args, beginOK \in BeginAnswers, resp \in StoreResponses,
        caught \in Handlers :
       Called("Get", arg,
              Get(stack, arg, beginOK, resp, txes, tx_entity_groups, NewHandle),
              caught)

DoDelete ==
  /\ CanCall
  /\ \E arg \in Args, beginOK \in BeginAnswers, resp \in StoreResponses,
        caught \in Handlers :
       Called("Delete", arg,
              Delete(stack, arg, beginOK, resp, txes, tx_entity_groups, NewHandle),
              caught)

\* ------------------------------------------------- Query.Run and Query.Get
\* A call without keys or entities.
NoArg == [multiple |-> FALSE, items |-> <<>>]

\* Faulty variant: the query is run without looking at the stack.
QueryNeverInTransaction(stk) == FALSE

\* `if _FindTransactionInStack():` in Query._Run, whose frame is the
\* innermost of stk.
QueryInTransaction(stk) == FindTransactionInStack(stk) # NoFrame

\* Query._Run(limit), called by the innermost frame of stk.
QueryRunLimit(stk, resp, T, G) ==
  LET me == stk \o <<CalleeFrame("_Run")>>
  IN IF QueryInTransaction(me)
     THEN Outcome("BadRequestError", T, G, <<>>)
     ELSE Outcome(IF resp = OK THEN NoExc ELSE ToDatastoreError(resp), T, G,
                  <<Call("RunQuery", <<>>, {}, <<>>)>>)

\* Query.Run(), called by the innermost frame of stk.
QueryRun(stk, resp, T, G) ==
  QueryRunLimit(stk \o <<CalleeFrame("Run")>>, resp, T, G)

\* Iterator._Next(count) on the iterator _Run has just returned: its buffer
\* is empty and it expects more results.
IteratorNext(count, resp) ==
  IF count <= 0 THEN [exc |-> "BadArgumentError", calls |-> <<>>]
  ELSE [exc |-> IF resp = OK THEN NoExc ELSE ToDatastoreError(resp),
        calls |-> <<Call("Next", <<>>, {}, <<>>)>>]

\* Query.Get(count), called by the innermost frame of stk:
\* `self._Run(count)._Next(count)`.
QueryGet(stk, count, resp, respNext, T, G) ==
  IF count <= 0 THEN Outcome("BadArgumentError", T, G, <<>>)
  ELSE LET r == QueryRunLimit(stk \o <<CalleeFrame("Get")>>, resp, T, G)
           n == IteratorNext(count, respNext)
       IN IF r.exc # NoExc THEN r
          ELSE Outcome(n.exc, T, G, r.calls \o n.calls)

\* The counts Query.Get is called with.
Counts == {0, 1}

DoQueryRun ==
  /\ CanCall
  /\ \E resp \in StoreResponses, caught \in Handlers :
       Called("Query.Run", NoArg,
              QueryRun(stack, resp, txes, tx_entity_groups), caught)

DoQueryGet ==
  /\ CanCall
  /\ \E count \in Counts, resp \in StoreResponses,
        respNext \in StoreResponses, caught \in Handlers :
       Called("Query.Get", NoArg,
              QueryGet(stack, count, resp, respNext, txes, tx_entity_groups),
              caught)

\* --------------------------------------------------------- RunInTransaction

\* Faulty variant: range(0, TRANSACTION_RETRIES), one attempt short.
AttemptsShort == 0..(TRANSACTION_RETRIES - 1)

\* The values of the loop variable: range(0, TRANSACTION_RETRIES + 1).
Attempts == 0..TRANSACTION_RETRIES

\* Faulty variant: the sentinel is treated like any other error.
IsRollbackNever(e) == FALSE

\* `type is datastore_errors.Rollback` in the except clause.
IsRollback(e) == e = "Rollback"

\* Faulty variant: the registry is never found to hold the frame.
NeverInTransaction(T, fr) == FALSE

\* `if frame in _txes:` before Rollback and before Commit.
InTransaction(T, fr) == fr \in DOMAIN T

\* Faulty variant: every error answer to Commit is retried.
AfterCommitRetryAll(resp) == IF resp = OK THEN "return" ELSE "continue"

\* What the loop body does with the answer to Commit: the except clause
\* catches every ApplicationError and continues only on
\* CONCURRENT_TRANSACTION; after it control reaches `return result`.
AfterCommit(resp) ==
  IF resp = OK THEN "return"
  ELSE IF resp = "CONCURRENT_TRANSACTION" THEN "continue"
  ELSE "return"

\* Faulty variant: the entries survive the Commit.
CommitKeeps(reg, fr) == reg

\* `finally: del _txes[frame]; del _tx_entity_groups[frame]` after Commit.
CommitCleanup(reg, fr) == Remove(reg, fr)

\* Faulty variant: the outer finally deletes nothing.
ExitKeeps(reg, fr) == reg

\* The outer finally: `if frame in _txes: del ...`.
ExitCleanup(reg, fr) == IF fr \in DOMAIN reg THEN Remove(reg, fr) ELSE reg

\* The frame of RunInTransaction is popped and control is back in the caller.
Caller(stk) == IF stk[Len(stk)].name = "function" THEN "fn" ELSE "app"

\* RunInTransaction is called: the nested check, then the first invocation
\* of the user function.
RunInTransaction ==
  /\ CanCall
  /\ LET me == stack \o <<RunFrame(Len(stack) + 1)>>
     IN IF FindTransactionInStack(me) # NoFrame
        THEN \E caught \in {FALSE} \cup Handlers :
               Called("RunInTransaction", NoArg,
                      Outcome("BadRequestError", ExitCleanup(txes, NoFrame),
                              ExitCleanup(tx_entity_groups, NoFrame), <<>>),
                      caught)
        ELSE /\ frame' = Len(me)
             /\ i' = 0
             /\ stack' = me \o <<FunctionFrame>>
             /\ pc' = "fn"
             /\ opsDone' = 0
             /\ wire' = <<>>
             /\ lastOp' = [op |-> "RunInTransaction", scope |-> Scope,
                           first |-> <<>>, grps |-> {},
                           before |-> [tx |-> Entry(txes, Scope),
                                       grp |-> Entry(tx_entity_groups, Scope)],
                           exc |-> NoExc, calls |-> <<>>]
             /\ fnCalls' = 1
             /\ commits' = 0
             /\ conflicts' = 0
             /\ rollbacks' = 0
             /\ lastCommit' = NoCall
             /\ lastRollback' = NoCall
             /\ result' = NoValue
             /\ fnValue' = NoValue
             /\ exc' = NoExc
             /\ outcome' = Ended("running", NoValue, NoExc)
             /\ UNCHANGED <<txes, tx_entity_groups, io, queryVars, iterVars, conv, fault, flows>>

\* The user function returns a value.
FunctionReturns ==
  /\ pc = "fn"
  /\ \E v \in Values :
       /\ result' = v
       /\ fnValue' = v
  /\ stack' = SubSeq(stack, 1, Len(stack) - 1)
  /\ pc' = "commit"
  /\ lastOp' = NoOp
  /\ UNCHANGED <<frame, i, txes, tx_entity_groups, exc, opsDone, wire,
                 fnCalls, commits, conflicts, rollbacks, lastCommit,
                 lastRollback, outcome, io, queryVars, iterVars, conv, fault, flows>>

\* The user function raises the rollback sentinel or an error of its own.
FunctionRaises ==
  /\ pc = "fn"
  /\ \E e \in {"Rollback", "UserError"} : exc' = e
  /\ stack' = SubSeq(stack, 1, Len(stack) - 1)
  /\ pc' = "except"
  /\ lastOp' = NoOp
  /\ UNCHANGED <<frame, i, txes, tx_entity_groups, result, opsDone,
                 wire, fnCalls, commits, conflicts, rollbacks, lastCommit,
                 lastRollback, fnValue, outcome, io, queryVars, iterVars, conv, fault, flows>>

\* RunInTransaction ends: the outer finally, then back in the caller.
Leave(o, T, G) ==
  /\ txes' = ExitCleanup(T, frame)
  /\ tx_entity_groups' = ExitCleanup(G, frame)
  /\ stack' = SubSeq(stack, 1, Len(stack) - 1)
  /\ pc' = Caller(SubSeq(stack, 1, Len(stack) - 1))
  /\ outcome' = [o EXCEPT !.cause = exc, !.begun = BeginRets(wire)]
  /\ exc' = NoExc
  /\ lastOp' = NoOp
  /\ wire' = <<>>
  /\ UNCHANGED <<io, queryVars, iterVars, conv, fault, flows>>

\* The except clause around the call of the user function.
HandleException ==
  /\ pc = "except"
  /\ IF InTransaction(txes, frame)
     THEN \E resp \in StoreResponses :
            /\ rollbacks' = rollbacks + 1
            /\ lastRollback' = [tx |-> <<txes[frame]>>, resp |-> resp,
                                begun |-> Begun(wire)]
     ELSE UNCHANGED <<rollbacks, lastRollback>>
  /\ IF IsRollback(exc)
     THEN Leave(Ended("returned", NoValue, NoExc), txes, tx_entity_groups)
     ELSE Leave(Ended("raised", NoValue, exc), txes, tx_entity_groups)
  /\ UNCHANGED <<frame, i, result, opsDone, fnCalls, commits,
                 conflicts, lastCommit, fnValue>>

\* The user function returned: Commit if a transaction was begun, then
\* return, retry or give up.
Commit ==
  /\ pc = "commit"
  /\ IF ~InTransaction(txes, frame)
     THEN /\ Leave(Ended("returned", result, NoExc), txes, tx_entity_groups)
          /\ UNCHANGED <<i, opsDone, fnCalls, commits, conflicts,
                         lastCommit>>
     ELSE \E resp \in Responses :
            /\ commits' = commits + 1
            /\ conflicts' = conflicts + (IF resp = "CONCURRENT_TRANSACTION" THEN 1 ELSE 0)
            /\ lastCommit' = [tx |-> <<txes[frame]>>, resp |-> resp,
                              begun |-> Begun(wire)]
            /\ IF AfterCommit(resp) = "continue"
               THEN IF i + 1 \in Attempts
                    THEN /\ i' = i + 1
                         /\ txes' = CommitCleanup(txes, frame)
                         /\ tx_entity_groups' = CommitCleanup(tx_entity_groups, frame)
                         /\ stack' = stack \o <<FunctionFrame>>
                         /\ pc' = "fn"
                         /\ opsDone' = 0
                         /\ wire' = <<>>
                         /\ fnCalls' = fnCalls + 1
                         /\ UNCHANGED <<outcome, exc, lastOp, io, queryVars, iterVars, conv, fault, flows>>
                    ELSE /\ Leave(Ended("raised", NoValue, "TransactionFailedError"),
                                  CommitCleanup(txes, frame),
                                  CommitCleanup(tx_entity_groups, frame))
                         /\ UNCHANGED <<i, opsDone, fnCalls>>
               ELSE /\ Leave(Ended("returned", result, NoExc),
                             CommitCleanup(txes, frame),
                             CommitCleanup(tx_entity_groups, frame))
                    /\ UNCHANGED <<i, opsDone, fnCalls>>
  /\ UNCHANGED <<frame, result, rollbacks, lastRollback, fnValue>>

Next ==
  \/ DoPut
  \/ DoGet
  \/ DoDelete
  \/ DoQueryRun
  \/ DoQueryGet
  \/ RunInTransaction
  \/ FunctionReturns
  \/ FunctionRaises
  \/ HandleException
  \/ Commit

Spec == Init /\ [][Next]_vars


\* ----------------------------- RunInTransaction on two flows of control
\* Each flow has a call stack of its own; the registries are the module's.
\* A step of a flow is what it does up to its next wire call's answer.
otherVars == <<stack, pc, frame, i, result, exc, opsDone, wire, lastOp,
               fnCalls, commits, conflicts, rollbacks, lastCommit,
               lastRollback, fnValue, outcome, io, queryVars, iterVars, conv,
               fault>>

\* Faulty variant: the invocations are not told apart by their frames.
OneFrame(f) == 1

\* `frame = sys._getframe()`: the frame object of flow f's invocation; frame
\* objects that are alive together are different objects.
FlowFrame(f) == f

FlowStack(f) == <<AppFrame, RunFrame(FlowFrame(f)), FunctionFrame>>

\* The arguments the functions pass: one entity or complete key.
FlowArgs == {a \in Entities : ~a.multiple}
FlowOps == {"Put", "Get", "Delete"}
Operation(op, stk, arg, beginOK, resp, T, G, h) ==
  CASE op = "Put" -> Put(stk, arg, beginOK, resp, T, G, h)
    [] op = "Get" -> Get(stk, arg, beginOK, resp, T, G, h)
    [] op = "Delete" -> Delete(stk, arg, beginOK, resp, T, G, h)

\* The store returns a handle that no transaction in progress has.
FreshHandle ==
  LET held == {txes[fr] : fr \in DOMAIN txes}
                \cup UNION {{flows[f].begun[n] : n \in 1..Len(flows[f].begun)} :
                              f \in Flows}
  IN CHOOSE h \in 1..(Cardinality(Flows) + 1) :
       /\ h \notin held
       /\ \A k \in 1..(h - 1) : k \in held

\* Flow f does `next`, the registries become T and G.
FlowStep(f, next, T, G) ==
  /\ flows' = [flows EXCEPT ![f] = next]
  /\ txes' = T
  /\ tx_entity_groups' = G
  /\ UNCHANGED otherVars

\* Flow f calls RunInTransaction: the nested check, then the first
\* invocation of the user function.
FlowRuns(f) ==
  /\ flows[f].pc = "app"
  /\ FindTransactionInStack(<<AppFrame, RunFrame(FlowFrame(f))>>) = NoFrame
  /\ FlowStep(f, [flows[f] EXCEPT !.pc = "fn"], txes, tx_entity_groups)

\* The function of flow f calls Put, Get or Delete.  A call that sends
\* BeginTransaction blocks in it, with the entries of the frame made.
FlowCalls(f) ==
  /\ flows[f].pc = "fn"
  /\ flows[f].ops < MaxOps
  /\ \E op \in FlowOps, arg \in FlowArgs, caught \in BOOLEAN :
       LET r == Operation(op, FlowStack(f), arg, FALSE, OK, txes,
                          tx_entity_groups, FreshHandle)
       IN IF r.calls # <<>> /\ r.calls[1].m = "BeginTransaction"
          THEN /\ caught
               /\ FlowStep(f, [flows[f] EXCEPT
                                 !.pc = "begin",
                                 !.pending = <<[op |-> op, arg |-> arg]>>,
                                 !.pinned = First(arg.items),
                                 !.first = First(arg.items),
                                 !.exc = NoExc,
                                 !.sent = r.calls],
                           r.txes, r.groups)
          ELSE /\ r.exc = NoExc => caught
               /\ FlowStep(f, [flows[f] EXCEPT
                                 !.pc = IF caught THEN "fn" ELSE "except",
                                 !.ops = IF caught THEN @ + 1 ELSE 0,
                                 !.first = First(arg.items),
                                 !.exc = r.exc,
                                 !.sent = r.calls],
                           r.txes, r.groups)

\* BeginTransaction is answered to flow f: the call that sent it goes on.
FlowBegun(f) ==
  /\ flows[f].pc = "begin"
  /\ \E beginOK \in BOOLEAN, caught \in BOOLEAN :
       LET call == flows[f].pending[1]
           fr == FindTransactionInStack(FlowStack(f) \o <<CalleeFrame(call.op)>>
                                          \o <<CalleeFrame("_MaybeSetupTransaction")>>)
           h == FreshHandle
           r == Operation(call.op, FlowStack(f), call.arg, beginOK, OK,
                          Remove(txes, fr), Remove(tx_entity_groups, fr), h)
       IN /\ r.exc = NoExc => caught
          /\ FlowStep(f, [flows[f] EXCEPT
                            !.pc = IF caught THEN "fn" ELSE "except",
                            !.ops = IF caught THEN @ + 1 ELSE 0,
                            !.pending = <<>>,
                            !.begun = IF beginOK THEN <<h>> ELSE <<>>,
                            !.exc = r.exc,
                            !.sent = r.calls],
                      r.txes, r.groups)

\* The function of flow f returns.
FlowReturns(f) ==
  /\ flows[f].pc = "fn"
  /\ FlowStep(f, [flows[f] EXCEPT !.pc = "commit", !.ops = 0, !.first = <<>>,
                                  !.exc = NoExc, !.sent = <<>>],
              txes, tx_entity_groups)

\* The function of flow f raises the rollback sentinel or an error.
FlowRaises(f) ==
  /\ flows[f].pc = "fn"
  /\ \E e \in {"Rollback", "UserError"} :
       FlowStep(f, [flows[f] EXCEPT !.pc = "except", !.ops = 0, !.first = <<>>,
                                    !.exc = e, !.sent = <<>>],
                txes, tx_entity_groups)

\* The except clause of flow f, then the outer finally.
FlowException(f) ==
  /\ flows[f].pc = "except"
  /\ LET fr == FlowFrame(f)
     IN FlowStep(f, [flows[f] EXCEPT
                       !.pc = "done",
                       !.first = <<>>,
                       !.sent = IF InTransaction(txes, fr)
                                THEN <<Call("Rollback", <<txes[fr]>>, {}, <<>>)>>
                                ELSE <<>>],
                 ExitCleanup(txes, fr), ExitCleanup(tx_entity_groups, fr))

\* Flow f commits: return, retry or give up.
FlowCommits(f) ==
  /\ flows[f].pc = "commit"
  /\ LET fr == FlowFrame(f)
     IN IF ~InTransaction(txes, fr)
        THEN FlowStep(f, [flows[f] EXCEPT !.pc = "done"],
                      ExitCleanup(txes, fr), ExitCleanup(tx_entity_groups, fr))
        ELSE \E resp \in {OK, "CONCURRENT_TRANSACTION", "BAD_REQUEST"} :
               /\ resp = "CONCURRENT_TRANSACTION" =>
                    flows[f].i < MaxConflicts
               /\ FlowStep(f, [flows[f] EXCEPT
                                 !.pc = IF /\ AfterCommit(resp) = "continue"
                                           /\ flows[f].i + 1 \in Attempts
                                        THEN "retry" ELSE "done",
                                 !.exc = IF AfterCommit(resp) = "continue"
                                         THEN "TransactionFailedError"
                                         ELSE NoExc,
                                 !.sent = <<Call("Commit", <<txes[fr]>>, {},
                                                 <<>>)>>],
                           CommitCleanup(txes, fr),
                           CommitCleanup(tx_entity_groups, fr))

\* The loop of flow f continues: the function is invoked again.
FlowRetries(f) ==
  /\ flows[f].pc = "retry"
  /\ FlowStep(f, FlowState("fn", flows[f].i + 1, 0, <<>>, <<>>, <<>>, <<>>,
                           NoExc, <<>>),
              txes, tx_entity_groups)

NextFlows ==
  \E f \in Flows :
    \/ FlowRuns(f)
    \/ FlowCalls(f)
    \/ FlowBegun(f)
    \/ FlowReturns(f)
    \/ FlowRaises(f)
    \/ FlowException(f)
    \/ FlowCommits(f)
    \/ FlowRetries(f)

SpecFlows == Init /\ [][NextFlows]_vars


\* ------------------------------------------ Put and Get: answer and result
\* A key is its entity group and its id; NoId is the id of a key that has
\* neither id nor name.  An entity is modelled by its key.
NoId == 0
Ids == {1, 2}
Keys == [group : Groups, id : {NoId} \cup Ids]
CompleteKeys == {k \in Keys : k.id # NoId}
KeyLists == UNION {[1..n -> Keys] : n \in 0..MaxKeys}
\* PutResponse.key_list(): the store assigns complete keys.
KeyAnswers == UNION {[1..n -> CompleteKeys] : n \in 0..MaxKeys}
\* GetResponse.entity_list(): a slot holds an entity (<<e>>) or none (<<>>).
Slots == {<<>>} \cup {<<k>> : k \in CompleteKeys}
EntityAnswers == UNION {[1..n -> Slots] : n \in 0..MaxKeys}

\* The argument as the first half of Put, Get and Delete sees it.
AsArg(multiple, objs) ==
  [multiple |-> multiple,
   items    |-> [n \in 1..Len(objs) |-> objs[n].group],
   complete |-> \A n \in 1..Len(objs) : objs[n].id # NoId]

\* The objects a call can be given: one object or a sequence of them.
Inputs == {a \in [multiple : BOOLEAN, objs : KeyLists] :
             ~a.multiple => Len(a.objs) = 1}

Min(a, b) == IF a < b THEN a ELSE b

\* Faulty variant: the keys are copied before their number is compared.
PutResultCopiesFirst(entities, multiple, keys) ==
  LET copied == [n \in 1..Len(entities) |->
                   IF n <= Min(Len(entities), Len(keys)) THEN keys[n]
                   ELSE entities[n]]
  IN IF Len(keys) # Len(entities)
     THEN [exc |-> "InternalError", after |-> copied,
           ret |-> Returned("none", <<>>)]
     ELSE [exc |-> NoExc, after |-> copied,
           ret |-> IF multiple THEN Returned("list", keys)
                   ELSE Returned("scalar", <<keys[1]>>)]

\* Put after the store has answered with keys: the count is compared, each
\* key is copied into its entity, the keys are returned.
PutResult(entities, multiple, keys) ==
  IF Len(keys) # Len(entities)
  THEN [exc |-> "InternalError", after |-> entities,
        ret |-> Returned("none", <<>>)]
  ELSE [exc |-> NoExc,
        after |-> [n \in 1..Len(entities) |-> keys[n]],
        ret |-> IF multiple THEN Returned("list", keys)
                ELSE Returned("scalar", <<keys[1]>>)]

\* Faulty variant: a list of one key is answered like a single key.
GetResultUnwraps(keys, multiple, slots) ==
  IF multiple /\ Len(keys) # 1
  THEN [exc |-> NoExc, after |-> keys, ret |-> Returned("list", slots)]
  ELSE IF Len(slots) = 0
  THEN [exc |-> "IndexError", after |-> keys, ret |-> Returned("none", <<>>)]
  ELSE IF slots[1] = <<>>
  THEN [exc |-> "EntityNotFoundError", after |-> keys,
        ret |-> Returned("none", <<>>)]
  ELSE [exc |-> NoExc, after |-> keys, ret |-> Returned("scalar", <<slots[1]>>)]

\* Get after the store has answered: one list element per slot of the
\* answer, None for a slot without entity; then the shape of the result.
GetResult(keys, multiple, slots) ==
  LET entities == [n \in 1..Len(slots) |-> slots[n]]
  IN IF multiple
     THEN [exc |-> NoExc, after |-> keys, ret |-> Returned("list", entities)]
     ELSE IF Len(entities) = 0
     THEN [exc |-> "IndexError", after |-> keys, ret |-> Returned("none", <<>>)]
     ELSE IF entities[1] = <<>>
     THEN [exc |-> "EntityNotFoundError", after |-> keys,
           ret |-> Returned("none", <<>>)]
     ELSE [exc |-> NoExc, after |-> keys,
           ret |-> Returned("scalar", <<entities[1]>>)]

\* A whole call: r is what the first half did (checks, transaction set-up,
\* dispatch), res what the second half makes of the answer.
Answered(op, in, r, answer, res) ==
  /\ txes' = r.txes
  /\ tx_entity_groups' = r.groups
  /\ io' = IF r.exc # NoExc
           THEN [op |-> op, multiple |-> in.multiple, before |-> in.objs,
                 answered |-> FALSE, answer |-> <<>>, exc |-> r.exc,
                 ret |-> Returned("none", <<>>), after |-> in.objs]
           ELSE [op |-> op, multiple |-> in.multiple, before |-> in.objs,
                 answered |-> TRUE, answer |-> answer, exc |-> res.exc,
                 ret |-> res.ret, after |-> res.after]
  /\ UNCHANGED <<stack, pc, frame, i, result, exc, opsDone, wire, lastOp,
                 fnCalls, commits, conflicts, rollbacks, lastCommit,
                 lastRollback, fnValue, outcome, queryVars, iterVars, conv, fault, flows>>

\* io describes one call, and outside a transaction a call leaves nothing
\* behind for the next one: every call is made from the initial state.
NoCallYet == io = NoIO

\* The application calls Put and the store answers with an error or keys.
CallPut ==
  /\ NoCallYet
  /\ \E in \in Inputs, resp \in StoreResponses, keys \in KeyAnswers :
       Answered("Put", in,
                Put(stack, AsArg(in.multiple, in.objs), TRUE, resp,
                    txes, tx_entity_groups, NewHandle),
                keys, PutResult(in.objs, in.multiple, keys))

\* The application calls Get and the store answers with an error or slots.
CallGet ==
  /\ NoCallYet
  /\ \E in \in Inputs, resp \in StoreResponses, slots \in EntityAnswers :
       Answered("Get", in,
                Get(stack, AsArg(in.multiple, in.objs), TRUE, resp,
                    txes, tx_entity_groups, NewHandle),
                slots, GetResult(in.objs, in.multiple, slots))

NextShapes ==
  \/ CallPut
  \/ CallGet

SpecShapes == Init /\ [][NextShapes]_vars


\* -------------------------------------------------------------- the Query
\* A filter string is the sequence of its words (runs of non-whitespace).
OPERATORS == {"<", "<=", ">", ">=", "=", "=="}
INEQUALITY_OPERATORS == {"<", "<=", ">", ">="}
NoOperator == "None"

\* FILTER_REGEX.match(filter): <<>> if the string does not match, else the
\* property (group 1) and the operator (group 3, None if there is none).
FilterMatch(filter) ==
  IF Len(filter) = 1
  THEN <<[property |-> filter[1], operator |-> NoOperator]>>
  ELSE IF Len(filter) = 2 /\ filter[2] \in OPERATORS
  THEN <<[property |-> filter[1], operator |-> filter[2]]>>
  ELSE <<>>

\* The filter strings, values, orderings, hints and ancestors used.
FilterStrings == {<<"age", "<">>, <<"age", ">=">>, <<"name", "<">>,
                  <<"name">>, <<"age", "<", "5">>}
FilterValues == {"v1", "Key", "Blob"}
ASCENDING == "ASCENDING"
DESCENDING == "DESCENDING"
\* An argument of Order: a property name, a (name, direction) pair, or
\* something that is neither.
OrderOf(property, direction) == [property |-> property, direction |-> direction]
NotAnOrder == OrderOf("", "not a string or tuple")
OrderArgs == {<<>>,
              <<OrderOf("age", "omitted")>>,
              <<OrderOf("name", "omitted")>>,
              <<OrderOf("age", "omitted"), OrderOf("name", DESCENDING)>>,
              <<OrderOf("age", "omitted"), NotAnOrder>>}
HintArgs == {"ORDER_FIRST", "not a hint"}
AncestorArgs == {[group |-> "A", id |-> 1], [group |-> "A", id |-> NoId]}
UpdateArgs == {<< <<(<<"age", "<">>), "v1">> >>,
               << <<(<<"name">>), "v1">>, <<(<<"name", "<">>), "v1">> >>}
\* The numbers of results the store reports.
CountValues == {0, 1}

\* The filters of a query whose operator is an inequality.
InequalityFilters(qq) ==
  {f \in DOMAIN qq.filters :
     FilterMatch(f)[1].operator \in INEQUALITY_OPERATORS}
PropertyOf(filter) == FilterMatch(filter)[1].property

\* Faulty variant: a second inequality property is let through.
NoOtherInequality(inequality_prop, property) == FALSE

\* `self.__inequality_prop and property != self.__inequality_prop`
OtherInequality(inequality_prop, property) ==
  inequality_prop # <<>> /\ inequality_prop # <<property>>

\* Faulty variant: the filter is not compared with the first sort order.
NoOtherFirstOrder(orderings, property) == FALSE

\* `len(self.__orderings) >= 1 and self.__orderings[0][0] != property`
OtherFirstOrder(orderings, property) ==
  Len(orderings) >= 1 /\ orderings[1].property # property

\* Query.__CheckFilter(filter, values): the error it raises, NoExc if none.
CheckFilter(qq, filter, value) ==
  IF FilterMatch(filter) = <<>> THEN "BadFilterError"
  ELSE LET property == FilterMatch(filter)[1].property
           operator == FilterMatch(filter)[1].operator
       IN IF value = "Blob" THEN "BadValueError"
          ELSE IF operator \in INEQUALITY_OPERATORS
          THEN IF value = "Key" THEN "BadFilterError"
               ELSE IF OtherInequality(qq.inequality_prop, property)
               THEN "BadFilterError"
               ELSE IF OtherFirstOrder(qq.orderings, property)
               THEN "BadFilterError"
               ELSE NoExc
          ELSE NoExc

\* What a method of the Query did: the object it leaves, the error raised.
Did(qq, e) == [q |-> qq, exc |-> e]

\* Faulty variant: a filter set again is moved behind the others.
EverySetInserts(filter_order, filter) == TRUE

\* `if filter not in self.__filter_order:`
FirstInsertion(filter_order, filter) == filter \notin DOMAIN filter_order

\* Query.__setitem__(filter, value)
QuerySetItem(qq, filter, value) ==
  IF CheckFilter(qq, filter, value) # NoExc
  THEN Did(qq, CheckFilter(qq, filter, value))
  ELSE LET property == FilterMatch(filter)[1].property
           operator == FilterMatch(filter)[1].operator
           stored == [qq EXCEPT !.filters = Assign(qq.filters, filter, value)]
           counted ==
             IF operator \in INEQUALITY_OPERATORS
             THEN [stored EXCEPT
                     !.inequality_prop =
                        IF stored.inequality_prop = <<>> THEN <<property>>
                        ELSE stored.inequality_prop,
                     !.inequality_count = stored.inequality_count + 1]
             ELSE stored
           ordered ==
             IF FirstInsertion(counted.filter_order, filter)
             THEN [counted EXCEPT
                     !.filter_order =
                        Assign(counted.filter_order, filter, counted.filter_counter),
                     !.filter_counter = counted.filter_counter + 1]
             ELSE counted
       IN IF operator \in INEQUALITY_OPERATORS
             /\ stored.inequality_prop \notin {<<>>, <<property>>}
          THEN Did(stored, "AssertionError")
          ELSE Did([ordered EXCEPT !.cached_count = <<>>], NoExc)

\* Faulty variant: the inequality property outlives its last filter.
InequalityKept(inequality_count) == FALSE

\* `if self.__inequality_count == 0:`
NoInequalityLeft(inequality_count) == inequality_count = 0

\* Query.__delitem__(filter)
QueryDelItem(qq, filter) ==
  IF filter \notin DOMAIN qq.filters THEN Did(qq, "KeyError")
  ELSE LET deleted == [qq EXCEPT !.filters = Remove(qq.filters, filter)]
       IN IF filter \notin DOMAIN qq.filter_order THEN Did(deleted, "KeyError")
          ELSE LET removed == [deleted EXCEPT
                                 !.filter_order = Remove(deleted.filter_order, filter),
                                 !.cached_count = <<>>]
                   operator == FilterMatch(filter)[1].operator
               IN IF operator \notin INEQUALITY_OPERATORS THEN Did(removed, NoExc)
                  ELSE IF removed.inequality_count < 1
                          \/ removed.inequality_prop # <<PropertyOf(filter)>>
                  THEN Did(removed, "AssertionError")
                  ELSE Did([removed EXCEPT
                              !.inequality_count = removed.inequality_count - 1,
                              !.inequality_prop =
                                 IF NoInequalityLeft(removed.inequality_count - 1)
                                 THEN <<>>
                                 ELSE removed.inequality_prop],
                           NoExc)

\* Query.setdefault(filter, value): the checks of __setitem__, then
\* dict.setdefault; the insertion index and the inequality bookkeeping are
\* not touched.
QuerySetDefault(qq, filter, value) ==
  IF CheckFilter(qq, filter, value) # NoExc
  THEN Did(qq, CheckFilter(qq, filter, value))
  ELSE Did([qq EXCEPT
              !.cached_count = <<>>,
              !.filters = IF filter \in DOMAIN qq.filters THEN qq.filters
                          ELSE Assign(qq.filters, filter, value)],
           NoExc)

\* Query.update(other): __setitem__ for each item of other, until one raises.
RECURSIVE QueryUpdate(_, _)
QueryUpdate(qq, other) ==
  IF other = <<>> THEN Did(qq, NoExc)
  ELSE LET set == QuerySetItem(qq, other[1][1], other[1][2])
       IN IF set.exc # NoExc THEN set
          ELSE QueryUpdate(set.q, Tail(other))

\* The loop of Order over its arguments: the error it raises, NoExc if none.
RECURSIVE OrderingsError(_)
OrderingsError(orderings) ==
  IF orderings = <<>> THEN NoExc
  ELSE IF orderings[1] = NotAnOrder THEN "BadArgumentError"
  ELSE OrderingsError(Tail(orderings))

\* `orderings[i] = (property, direction)`: ascending unless stated.
Normalized(orderings) ==
  [n \in 1..Len(orderings) |->
     OrderOf(orderings[n].property,
             IF orderings[n].direction \in {ASCENDING, DESCENDING}
             THEN orderings[n].direction ELSE ASCENDING)]

\* Faulty variant: the sort orders are taken whatever the filters are.
NoOrderConflict(orderings, inequality_prop) == FALSE

\* `orderings and self.__inequality_prop and
\*  orderings[0][0] != self.__inequality_prop`
OrderConflict(orderings, inequality_prop) ==
  /\ orderings # <<>>
  /\ inequality_prop # <<>>
  /\ <<orderings[1].property>> # inequality_prop

\* Query.Order(*orderings)
QueryOrder(qq, orderings) ==
  IF OrderingsError(orderings) # NoExc
  THEN Did(qq, OrderingsError(orderings))
  ELSE IF OrderConflict(Normalized(orderings), qq.inequality_prop)
  THEN Did(qq, "BadArgumentError")
  ELSE Did([qq EXCEPT !.orderings = Normalized(orderings)], NoExc)

\* Query.Hint(hint)
QueryHint(qq, hint) ==
  IF hint \notin {"ORDER_FIRST", "ANCESTOR_FIRST", "FILTER_FIRST"}
  THEN Did(qq, "BadArgumentError")
  ELSE Did([qq EXCEPT !.hint = <<hint>>], NoExc)

\* Query.Ancestor(ancestor)
QueryAncestor(qq, key) ==
  IF key.id = NoId THEN Did(qq, "BadKeyError")
  ELSE Did([qq EXCEPT !.ancestor = <<key>>], NoExc)

\* Query._ToPb: every filter is checked again; the error raised, if any.
QueryToPb(qq) ==
  LET failing == {f \in DOMAIN qq.filter_order \cap DOMAIN qq.filters :
                    CheckFilter(qq, f, qq.filters[f]) # NoExc}
  IN IF failing = {} THEN NoExc
     ELSE CheckFilter(qq, CHOOSE f \in failing : TRUE,
                      qq.filters[CHOOSE f \in failing : TRUE])

\* `ordered_filters.sort()`: the filter strings of filter_order by their
\* numbers, smallest first.
RECURSIVE OrderedFilters(_)
OrderedFilters(filter_order) ==
  IF DOMAIN filter_order = {} THEN <<>>
  ELSE LET first == CHOOSE f \in DOMAIN filter_order :
                      \A g \in DOMAIN filter_order :
                        filter_order[f] <= filter_order[g]
       IN <<first>> \o OrderedFilters(Remove(filter_order, first))

\* The wire filter of a filter string and its value: no operator means '='.
PbFilter(filter, value) ==
  [op |-> IF FilterMatch(filter)[1].operator = NoOperator THEN "="
          ELSE FilterMatch(filter)[1].operator,
   name |-> FilterMatch(filter)[1].property,
   value |-> value]

\* `pb.set_hint(self.__hint)` and the condition it is under
PbHint(qq) ==
  IF \/ qq.hint = <<"ORDER_FIRST">> /\ qq.orderings # <<>>
     \/ qq.hint = <<"ANCESTOR_FIRST">> /\ qq.ancestor # <<>>
     \/ qq.hint = <<"FILTER_FIRST">> /\ DOMAIN qq.filters # {}
  THEN qq.hint ELSE <<>>

\* Query._ToPb(): the error raised or the protocol buffer built: ancestor,
\* hint, one filter for each string of filter_order that is a filter of the
\* Query, one order for each of the orderings.
ToPb(qq) ==
  IF QueryToPb(qq) # NoExc THEN [exc |-> QueryToPb(qq), pb |-> <<>>]
  ELSE LET emitted == SelectSeq(OrderedFilters(qq.filter_order),
                                LAMBDA f : f \in DOMAIN qq.filters)
       IN [exc |-> NoExc,
           pb |-> <<[ancestor |-> qq.ancestor,
                     hint |-> PbHint(qq),
                     filter |-> [n \in 1..Len(emitted) |->
                                   PbFilter(emitted[n], qq.filters[emitted[n]])],
                     order |-> qq.orderings]>>]

\* `if self.__cached_count:`
Cached(cached_count) == cached_count # <<>> /\ cached_count[1] # 0

\* Query.Count(): resp is the answer to the wire call, n the number the
\* store reports.
QueryCount(qq, resp, n) ==
  IF Cached(qq.cached_count)
  THEN [q |-> qq, exc |-> NoExc, wire |-> <<>>, ret |-> qq.cached_count]
  ELSE IF QueryToPb(qq) # NoExc
  THEN [q |-> qq, exc |-> QueryToPb(qq), wire |-> <<>>, ret |-> <<>>]
  ELSE IF resp # OK
  THEN [q |-> qq, exc |-> ToDatastoreError(resp), wire |-> <<"Count">>,
        ret |-> <<>>]
  ELSE [q |-> [qq EXCEPT !.cached_count = <<n>>], exc |-> NoExc,
        wire |-> <<"Count">>, ret |-> <<n>>]

\* The counters of the Query stay within the bounds.
Within(qq) ==
  /\ qq.inequality_count <= MaxFilters
  /\ qq.filter_counter <=
       IF qq.hint = <<>> /\ qq.ancestor = <<>> /\ qq.cached_count = <<>>
       THEN MaxInserts ELSE MaxHinted

\* The filter strings of h that are still filters of the Query, then those of
\* `new`, in their order, that have become filters of the Query.
RECURSIVE Inserted(_, _, _)
Inserted(h, new, filters) ==
  IF new = <<>> THEN SelectSeq(h, LAMBDA f : f \in DOMAIN filters)
  ELSE Inserted(IF new[1] \in DOMAIN filters
                   /\ \A n \in 1..Len(h) : h[n] # new[1]
                THEN Append(h, new[1]) ELSE h,
                Tail(new), filters)

\* A method of the Query was called with the filter strings `new` or the
\* orderings `orders`, and did r.
Mutated(op, arg, r, new, orders) ==
  /\ Within(r.q)
  /\ q' = r.q
  /\ qcall' = QueryCall(op, arg, r.exc, <<>>, <<>>)
  /\ given' = [filters |-> Inserted(given.filters, new, r.q.filters),
               orderings |-> IF op = "order" /\ r.exc = NoExc THEN orders
                             ELSE given.orderings]
  /\ UNCHANGED <<storeVars, io, iterVars, conv, fault, flows>>

SetFilter ==
  /\ Within(q)
  /\ \E filter \in FilterStrings, value \in FilterValues :
       Mutated("set_filter", <<filter, value>>, QuerySetItem(q, filter, value),
               <<filter>>, <<>>)

\* The call before this one was a set_filter of this filter, and it was
\* accepted.
JustSet(filter) ==
  qcall.op = "set_filter" /\ qcall.exc = NoExc /\ qcall.arg[1] = filter

RemoveFilter ==
  /\ Within(q)
  /\ \E filter \in FilterStrings :
       Mutated("remove_filter",
               IF JustSet(filter) THEN <<"just set">> ELSE <<>>,
               QueryDelItem(q, filter), <<>>, <<>>)

Update ==
  /\ Within(q)
  /\ \E other \in UpdateArgs :
       Mutated("update", <<>>, QueryUpdate(q, other),
               [n \in 1..Len(other) |-> other[n][1]], <<>>)

Order ==
  /\ Within(q)
  /\ \E orderings \in OrderArgs :
       Mutated("order", orderings, QueryOrder(q, orderings), <<>>, orderings)

Hint ==
  /\ Within(q)
  /\ \E hint \in HintArgs :
       Mutated("hint", <<>>, QueryHint(q, hint), <<>>, <<>>)

Ancestor ==
  /\ Within(q)
  /\ \E key \in AncestorArgs :
       Mutated("ancestor", <<>>, QueryAncestor(q, key), <<>>, <<>>)

Count ==
  /\ Within(q)
  /\ \E resp \in StoreResponses, n \in CountValues :
       LET r == QueryCount(q, resp, n)
       IN /\ Within(r.q)
          /\ q' = r.q
          /\ qcall' = QueryCall("count", <<>>, r.exc, r.wire, r.ret)
          /\ UNCHANGED <<storeVars, io, iterVars, conv, fault, flows, given>>

\* The Query is converted to its protocol buffer.
ToWire ==
  /\ Within(q)
  /\ qcall' = QueryCall("to_wire", <<>>, ToPb(q).exc, <<>>, ToPb(q).pb)
  /\ UNCHANGED <<storeVars, io, iterVars, conv, fault, flows, q, given>>

NextQuery ==
  \/ SetFilter
  \/ RemoveFilter
  \/ Update
  \/ Order
  \/ Hint
  \/ Ancestor
  \/ Count
  \/ ToWire

SpecQuery == Init /\ [][NextQuery]_vars

\* The Query with setdefault among the calls that give it filters.
SetDefault ==
  /\ Within(q)
  /\ \E filter \in FilterStrings, value \in FilterValues :
       LET r == QuerySetDefault(q, filter, value)
       IN /\ Cardinality(DOMAIN r.q.filters \ DOMAIN r.q.filter_order)
               <= MaxDefaults
          /\ Mutated("setdefault", <<filter, value>>, r, <<filter>>, <<>>)

NextDefaults ==
  \/ SetFilter
  \/ SetDefault
  \/ Update
  \/ RemoveFilter
  \/ ToWire

SpecDefaults == Init /\ [][NextDefaults]_vars


\* ----------------------------------------------------------- the Iterator
\* The store's answer to a Next call: an error code or OK, the number of
\* entities in it and its more_results flag.
Answer(resp, batch, more) == [resp |-> resp, batch |-> batch, more |-> more]

\* The answers the store can give to Next(count) when `left` entities of the
\* result set have not been sent: all it can send, none, or one.
Answers(count, left) ==
  {Answer(resp, batch, more) :
     resp \in StoreResponses,
     batch \in {0, Min(1, Min(count, left)), Min(count, left)},
     more \in BOOLEAN}

\* What a method of the Iterator did: the object it leaves, the error raised,
\* the counts of the Next calls sent, the entities returned.
Done(iter, e, sent, ret) == [it |-> iter, exc |-> e, wire |-> sent, ret |-> ret]

\* Faulty variant: next_batch does not look at the prefetch buffer.
BufferIgnored(buffer) == FALSE

\* `if self.__buffer:`
BufferHeld(buffer) == buffer # <<>>

\* Faulty variant: the store is asked again after it said there is no more.
NeverExhausted(more_results) == FALSE

\* `if not self.__more_results:`
Exhausted(more_results) == ~more_results

\* Iterator._Next(count): ans is the store's answer if Next is sent, `at` the
\* number of entities the store has sent before.  An entity is its position
\* in the result set.
Iterator_Next(iter, count, ans, at) ==
  IF count <= 0 THEN Done(iter, "BadArgumentError", <<>>, <<>>)
  ELSE IF BufferHeld(iter.buffer) THEN Done(iter, "BadRequestError", <<>>, <<>>)
  ELSE IF Exhausted(iter.more_results) THEN Done(iter, NoExc, <<>>, <<>>)
  ELSE IF ans.resp # OK
  THEN Done(iter, ToDatastoreError(ans.resp), <<count>>, <<>>)
  ELSE Done([iter EXCEPT !.more_results = ans.more], NoExc, <<count>>,
            [n \in 1..ans.batch |-> at + n])

\* Faulty variant: next() asks the store for the one entity it is short of.
PrefetchOne(iter) == Len(iter.buffer) + 1

\* `self._Next(self._BUFFER_SIZE)`: the count next() asks the store for.
PrefetchCount(iter) == BUFFER_SIZE

\* Iterator.next(): StopIteration is raised when pop(0) finds nothing.
Iterator_next(iter, ans, at) ==
  LET fetched == IF iter.buffer = <<>>
                 THEN Iterator_Next(iter, PrefetchCount(iter), ans, at)
                 ELSE Done(iter, NoExc, <<>>, iter.buffer)
  IN IF fetched.exc # NoExc THEN fetched
     ELSE IF fetched.ret = <<>>
     THEN Done([fetched.it EXCEPT !.buffer = <<>>], "StopIteration",
               fetched.wire, <<>>)
     ELSE Done([fetched.it EXCEPT !.buffer = Tail(fetched.ret)], NoExc,
               fetched.wire, <<Head(fetched.ret)>>)

\* The counts next_batch is called with.
BatchCounts == {0, 1, 2}

\* The result set after a call that did r, the store having answered ans to
\* the Next call if one was sent.
Served(op, r, ans) ==
  LET sent == r.wire # <<>>
      answered == sent /\ ans.resp = OK
      left == results.size - results.sent
  IN [size |-> results.size,
      sent |-> IF answered THEN results.sent + ans.batch ELSE results.sent,
      nexts |-> IF sent THEN results.nexts + 1 ELSE results.nexts,
      batched |-> results.batched \/ (sent /\ op = "next_batch"),
      full |-> results.full
               /\ (sent => ans.resp = OK /\ ans.batch = Min(r.wire[1], left)),
      ended |-> results.ended \/ (answered /\ ~ans.more),
      more |-> IF answered THEN ans.more ELSE results.more,
      consumed |-> IF op = "next" /\ r.exc = NoExc THEN results.consumed + 1
                   ELSE results.consumed,
      taken |-> results.taken + Len(r.ret)]

\* A method of the Iterator was called and did r.
Iterated(op, count, r, ans) ==
  /\ Served(op, r, ans).nexts <= MaxNexts
  /\ it' = r.it
  /\ itcall' = IteratorCall(op, count, r.exc, r.wire, r.ret)
  /\ results' = Served(op, r, ans)
  /\ UNCHANGED <<storeVars, io, queryVars, conv, fault, flows>>

\* Query.Run() outside a transaction returns an Iterator over a result set.
RunQuery ==
  /\ it.cursor = NoCursor
  /\ \E size \in Sizes :
       /\ it' = Iterator(1)
       /\ itcall' = IteratorCall("run", 0, NoExc, <<>>, <<>>)
       /\ results' = ResultSet(size)
       /\ UNCHANGED <<storeVars, io, queryVars, conv, fault, flows>>

NextBatch ==
  /\ it.cursor # NoCursor
  /\ \E count \in BatchCounts :
       \E ans \in Answers(count, results.size - results.sent) :
         Iterated("next_batch", count,
                  Iterator_Next(it, count, ans, results.sent), ans)

NextOne ==
  /\ it.cursor # NoCursor
  /\ \E ans \in Answers(BUFFER_SIZE, results.size - results.sent) :
       Iterated("next", 0, Iterator_next(it, ans, results.sent), ans)

NextIterator ==
  \/ RunQuery
  \/ NextBatch
  \/ NextOne

SpecIterator == Init /\ [][NextIterator]_vars


\* ------------------------------------------- Entity._ToPb, Entity._FromPb
\* Property names, in the order properties.sort() gives them, and values: a
\* Blob or Text value is raw, the others are indexed.
PropertyNames == <<"a", "b">>
PropertyScalars == {"v1", "v2", "Blob"}
IsRaw(scalar) == scalar = "Blob"

\* A property value of an Entity: a scalar, or a list of scalars.
Scalar(v) == [list |-> FALSE, items |-> <<v>>]
ListOf(items) == [list |-> TRUE, items |-> items]
PropertyValues ==
  {Scalar(v) : v \in PropertyScalars}
    \cup {ListOf(items) :
            items \in UNION {[1..n -> PropertyScalars] : n \in 1..MaxProps}}

\* The Entity objects converted: a key and a property map.
PropertyMaps ==
  UNION {[names -> PropertyValues] :
           names \in SUBSET {PropertyNames[n] : n \in 1..Len(PropertyNames)}}
EntityObjects == [key : Keys, properties : PropertyMaps]

\* A wire property: its name, its value and the `multiple` field, <<>> when
\* the field is not set.
Property(name, value, multiple) ==
  [name |-> name, value |-> value, multiple |-> multiple]

\* datastore_types.ToPropertyPb(name, values): one property per element of a
\* list, each with multiple = true; one with multiple = false for a scalar.
ToPropertyPb(name, values) ==
  [n \in 1..Len(values.items) |->
     Property(name, values.items[n], <<values.list>>)]

\* The loop of Entity._ToPb over the sorted properties; pb is the protocol
\* buffer built so far.
RECURSIVE ToPbProperties(_, _, _)
ToPbProperties(names, properties, pb) ==
  IF names = <<>> THEN pb
  ELSE IF Head(names) \notin DOMAIN properties
  THEN ToPbProperties(Tail(names), properties, pb)
  ELSE LET values == properties[Head(names)]
           sample == values.items[1]
       IN ToPbProperties(
            Tail(names), properties,
            IF IsRaw(sample)
            THEN [pb EXCEPT !.raw_property =
                              @ \o ToPropertyPb(Head(names), values)]
            ELSE [pb EXCEPT !.property =
                              @ \o ToPropertyPb(Head(names), values)])

\* Entity._ToPb()
EntityToPb(e) ==
  ToPbProperties(PropertyNames, e.properties,
                 [key |-> e.key,
                  entity_group |-> IF e.key.id # NoId THEN <<e.key.group>>
                                   ELSE <<>>,
                  property |-> <<>>, raw_property |-> <<>>])

\* Faulty variant: every value read from the wire is kept as a scalar.
AlwaysScalar(value, multiple) == Scalar(value)

\* `if prop.multiple(): value = [value]`
Sighted(value, multiple) == IF multiple THEN ListOf(<<value>>) ELSE Scalar(value)

\* The loops of Entity._FromPb over the properties: acc holds the entity
\* built so far, the local variable `name` (<<>> while it is unbound) and the
\* error raised.
RECURSIVE FromPbProperties(_, _, _)
FromPbProperties(props, acc, optimized) ==
  IF props = <<>> THEN acc
  ELSE LET prop == Head(props)
       IN IF prop.multiple = <<>>
          THEN [acc EXCEPT !.exc = IF acc.name = <<>> THEN "UnboundLocalError"
                                   ELSE "Error"]
          ELSE LET value == Sighted(prop.value, prop.multiple[1])
                   named == [acc EXCEPT !.name = <<prop.name>>]
               IN IF prop.name \notin DOMAIN acc.e
                  THEN FromPbProperties(
                         Tail(props),
                         [named EXCEPT !.e = Assign(acc.e, prop.name, value)],
                         optimized)
                  ELSE IF ~prop.multiple[1]
                  THEN [named EXCEPT !.exc = "Error"]
                  ELSE IF ~acc.e[prop.name].list
                  THEN [named EXCEPT !.exc = IF optimized THEN "TypeError"
                                             ELSE "AssertionError"]
                  ELSE FromPbProperties(
                         Tail(props),
                         [named EXCEPT
                            !.e = Assign(acc.e, prop.name,
                                         ListOf(acc.e[prop.name].items
                                                  \o value.items))],
                         optimized)

\* Entity._FromPb(pb): the error raised, or the Entity in `ret`.
EntityFromPb(pb, optimized) ==
  IF pb.key.id = NoId /\ ~optimized
  THEN [exc |-> "AssertionError", ret |-> <<>>]
  ELSE LET read == FromPbProperties(pb.property \o pb.raw_property,
                                    [e |-> <<>>, name |-> <<>>, exc |-> NoExc],
                                    optimized)
       IN IF read.exc # NoExc THEN [exc |-> read.exc, ret |-> <<>>]
          ELSE [exc |-> NoExc,
                ret |-> <<[key |-> pb.key, properties |-> read.e]>>]

\* The protocol buffers read: a key and at most MaxProps properties, the
\* indexed and the raw ones together.
WireProperties(scalars) ==
  {Property(PropertyNames[n], value, multiple) :
     n \in 1..Len(PropertyNames), value \in scalars,
     multiple \in {<<>>, <<TRUE>>, <<FALSE>>}}
PropertyLists(scalars, max) ==
  UNION {[1..n -> WireProperties(scalars)] : n \in 0..max}
EntityPbs ==
  UNION {{[key |-> key,
           entity_group |-> IF key.id # NoId THEN <<key.group>> ELSE <<>>,
           property |-> property, raw_property |-> raw] :
            key \in {[group |-> "A", id |-> 1], [group |-> "A", id |-> NoId]},
            raw \in PropertyLists({"Blob"}, MaxProps - Len(property))} :
           property \in PropertyLists({"v1", "v2"}, MaxProps)}

\* Entity._FromPb is called on a protocol buffer.
FromWire ==
  /\ conv.op = "none"
  /\ \E pb \in EntityPbs, optimized \in BOOLEAN :
       /\ conv' = Converted("from_wire", pb, optimized, <<>>,
                            EntityFromPb(pb, optimized).exc,
                            EntityFromPb(pb, optimized).ret)
       /\ UNCHANGED <<storeVars, io, queryVars, iterVars, fault, flows>>

\* An Entity is converted to its protocol buffer and read back.
ToWireAndBack ==
  /\ conv.op = "none"
  /\ \E e \in EntityObjects, optimized \in BOOLEAN :
       /\ conv' = Converted("to_wire, from_wire", e, optimized,
                            EntityToPb(e),
                            EntityFromPb(EntityToPb(e), optimized).exc,
                            EntityFromPb(EntityToPb(e), optimized).ret)
       /\ UNCHANGED <<storeVars, io, queryVars, iterVars, fault, flows>>

NextEntity ==
  \/ FromWire
  \/ ToWireAndBack

SpecEntity == Init /\ [][NextEntity]_vars


\* ------------------------------------------------ answers with error codes
\* An operation was called by the application, outside a transaction, and
\* did r; the store's answer to its wire call, if it sent one, was `code`.
Fails(op, arg, code, r) ==
  /\ fault' = Faulted(op, arg, r.calls # <<>>, code, r.exc)
  /\ UNCHANGED <<storeVars, io, queryVars, iterVars, conv, flows>>

PutAnswered ==
  /\ fault.op = "none"
  /\ \E arg \in Entities, code \in Responses :
       Fails("Put", arg, code,
             Put(<<AppFrame>>, arg, TRUE, code, <<>>, <<>>, NewHandle))

GetAnswered ==
  /\ fault.op = "none"
  /\ \E arg \in Args, code \in Responses :
       Fails("Get", arg, code,
             Get(<<AppFrame>>, arg, TRUE, code, <<>>, <<>>, NewHandle))

DeleteAnswered ==
  /\ fault.op = "none"
  /\ \E arg \in Args, code \in Responses :
       Fails("Delete", arg, code,
             Delete(<<AppFrame>>, arg, TRUE, code, <<>>, <<>>, NewHandle))

RunQueryAnswered ==
  /\ fault.op = "none"
  /\ \E code \in Responses :
       Fails("RunQuery", NoArg, code, QueryRun(<<AppFrame>>, code, <<>>, <<>>))

NextAnswered ==
  /\ fault.op = "none"
  /\ \E count \in BatchCounts, code \in Responses :
       LET r == Iterator_Next(Iterator(1), count, Answer(code, 0, TRUE), 0)
       IN Fails("Next", count, code, [calls |-> r.wire, exc |-> r.exc])

CountAnswered ==
  /\ fault.op = "none"
  /\ \E code \in Responses :
       LET r == QueryCount(NewQuery, code, 0)
       IN Fails("Count", NoArg, code, [calls |-> r.wire, exc |-> r.exc])

NextErrors ==
  \/ PutAnswered
  \/ GetAnswered
  \/ DeleteAnswered
  \/ RunQueryAnswered
  \/ NextAnswered
  \/ CountAnswered

SpecErrors == Init /\ [][NextErrors]_vars


\* =================================================================== claims
\* RunInTransaction has ended and the application has made no call since.
RunEnded == outcome.kind \in {"returned", "raised"}

\* C1: when the Commit calls of a run were answered concurrent-transaction k
\* times and the last one succeeded, k is at most TRANSACTION_RETRIES, the
\* user function was invoked k + 1 times, k + 1 Commit calls were sent and
\* RunInTransaction returned the value of the last invocation.
C1_RetryThenCommit ==
  (RunEnded /\ lastCommit.resp = OK)
    => /\ conflicts \in 0..TRANSACTION_RETRIES
       /\ fnCalls = conflicts + 1
       /\ commits = conflicts + 1
       /\ outcome.kind = "returned"
       /\ outcome.value = fnValue
       /\ outcome.exc = NoExc

\* The tenth retry commits: the function ran eleven times.
C1_Witness ==
  /\ RunEnded
  /\ lastCommit.resp = OK
  /\ conflicts = TRANSACTION_RETRIES
  /\ fnCalls = TRANSACTION_RETRIES + 1
  /\ outcome.value = "v2"

\* C2: the user function is never invoked more than TRANSACTION_RETRIES + 1
\* times in one run, and a run in which every invocation ended in a Commit
\* that was answered concurrent-transaction ends by raising
\* transaction-failed, after exactly TRANSACTION_RETRIES + 1 invocations and
\* without a value.
C2_RetriesExhausted ==
  /\ fnCalls <= TRANSACTION_RETRIES + 1
  /\ (RunEnded /\ commits = fnCalls /\ conflicts = commits)
       => /\ outcome.kind = "raised"
          /\ outcome.exc = "TransactionFailedError"
          /\ outcome.value = NoValue
          /\ fnCalls = TRANSACTION_RETRIES + 1

C2_Witness ==
  /\ RunEnded
  /\ commits = fnCalls
  /\ conflicts = commits
  /\ outcome.exc = "TransactionFailedError"

\* C3: when the user function returned and Commit was answered with an error
\* other than concurrent-transaction, RunInTransaction raises an error and
\* does not return the function's value; the function is not invoked again.
C3_CommitErrorPropagates ==
  (RunEnded /\ lastCommit.resp \in WireCodes \ {"CONCURRENT_TRANSACTION"})
    => /\ outcome.kind = "raised"
       /\ fnCalls = conflicts + 1


\* C4 as stated: when the user function raised the rollback sentinel, one
\* Rollback was sent, the function was invoked exactly once, no Commit was
\* sent and RunInTransaction returned normally without a value.
C4_SentinelAsStated ==
  (RunEnded /\ outcome.cause = "Rollback")
    => /\ rollbacks = 1
       /\ fnCalls = 1
       /\ commits = 0
       /\ outcome.kind = "returned"
       /\ outcome.value = NoValue

\* C4: when the user function raised the rollback sentinel, RunInTransaction
\* sent one Rollback if a call of that invocation had sent BeginTransaction
\* and none otherwise, did not invoke the function again, sent no Commit for
\* that attempt and returned normally without a value, whatever the answer
\* to Rollback.
C4_Sentinel ==
  (RunEnded /\ outcome.cause = "Rollback")
    => /\ rollbacks = (IF outcome.begun # <<>> THEN 1 ELSE 0)
       /\ fnCalls = conflicts + 1
       /\ commits = conflicts
       /\ outcome.kind = "returned"
       /\ outcome.value = NoValue
       /\ outcome.exc = NoExc

\* The sentinel was raised after a transaction had begun and the Rollback
\* call failed.
C4_Witness ==
  /\ RunEnded
  /\ outcome.cause = "Rollback"
  /\ rollbacks = 1
  /\ lastRollback.resp = "BAD_REQUEST"
  /\ outcome.kind = "returned"

\* The BeginTransaction of the last attempt succeeded.
HadBegun == outcome.begun # <<>> /\ outcome.begun[1] # <<>>

\* C5: when an error other than the rollback sentinel escaped the user
\* function after the transaction of the attempt had begun, exactly one
\* Rollback was sent, with the handle of that transaction, no Commit was
\* sent for the attempt, the function was not invoked again and
\* RunInTransaction raised that error, whatever the answer to Rollback.
C5_ErrorRollsBack ==
  (RunEnded /\ outcome.cause \notin {NoExc, "Rollback"} /\ HadBegun)
    => /\ rollbacks = 1
       /\ lastRollback.tx = outcome.begun[1]
       /\ commits = conflicts
       /\ fnCalls = conflicts + 1
       /\ outcome.kind = "raised"
       /\ outcome.exc = outcome.cause
       /\ outcome.value = NoValue

C5_Witness ==
  /\ RunEnded
  /\ outcome.cause = "UserError"
  /\ HadBegun
  /\ lastRollback.resp = "BAD_REQUEST"
  /\ outcome.exc = "UserError"

\* The frames of the stack with the given name.
FramesNamed(n) == {k \in 1..Len(stack) : stack[k].name = n}

\* C6: a RunInTransaction called inside the user function of a running
\* RunInTransaction raises bad-request, sends no wire call, does not invoke
\* its function (the stack never holds two RunInTransaction or two function
\* frames) and leaves the handle and the pinned group of the enclosing
\* transaction as they were.
C6_NestedRejected ==
  /\ Cardinality(FramesNamed("RunInTransaction")) <= 1
  /\ Cardinality(FramesNamed("function")) <= 1
  /\ (lastOp.op = "RunInTransaction" /\ lastOp.scope # NoFrame)
       => /\ lastOp.exc = "BadRequestError"
          /\ lastOp.calls = <<>>
          /\ Entry(txes, lastOp.scope) = lastOp.before.tx
          /\ Entry(tx_entity_groups, lastOp.scope) = lastOp.before.grp

\* A nested call was rejected while the enclosing transaction had a handle.
C6_Witness ==
  /\ lastOp.op = "RunInTransaction"
  /\ lastOp.scope # NoFrame
  /\ lastOp.exc = "BadRequestError"
  /\ lastOp.before.tx # <<>>
  /\ lastOp.before.tx # <<UnsetHandle>>
  /\ Entry(txes, lastOp.scope) = lastOp.before.tx

StoreOps == {"Put", "Get", "Delete"}
\* The Put, Get and Delete requests the last call dispatched.
Dispatched == {n \in 1..Len(lastOp.calls) : lastOp.calls[n].m \in StoreOps}
\* The BeginTransaction calls the last call sent.
Begins == {n \in 1..Len(lastOp.calls) : lastOp.calls[n].m = "BeginTransaction"}

\* C7: a Put, Get or Delete request dispatched inside the user function
\* carries the handle that the BeginTransaction of the current attempt
\* returned; one dispatched outside any RunInTransaction carries no handle
\* and no BeginTransaction is sent for it.
C7_RequestsAttach ==
  lastOp.op \in StoreOps
    => /\ lastOp.scope # NoFrame
            => \A n \in Dispatched :
                 /\ lastOp.calls[n].tx # <<>>
                 /\ lastOp.calls[n].tx = Begun(wire)
       /\ lastOp.scope = NoFrame
            => /\ Begins = {}
               /\ \A n \in Dispatched : lastOp.calls[n].tx = <<>>

\* C8: in one attempt nothing is sent before the first Put, Get or Delete of
\* the user function; BeginTransaction is the first wire call of the attempt
\* and is sent at most once, by the call that also sends the first request
\* after it; and the handle a retry attempt works with is not the handle of
\* the attempt before it.
C8_LazyBegin ==
  /\ (pc = "fn" /\ opsDone = 0) => wire = <<>>
  /\ pc \in {"fn", "except", "commit"}
       => /\ Len(BeginRets(wire)) <= 1
          /\ wire # <<>> => wire[1].m = "BeginTransaction"
          /\ frame \in DOMAIN txes <=> wire # <<>>
          /\ (Begun(wire) # <<>> /\ i > 0) => Begun(wire) # lastCommit.tx
  /\ lastOp.op \in StoreOps => Begins \subseteq {1}
  /\ (lastOp.op \in StoreOps /\ lastOp.scope # NoFrame /\ Dispatched # {}
        /\ lastOp.before.tx = <<>>)
       => Begins = {1} /\ Dispatched = {2}

\* A retry attempt has sent its own BeginTransaction and then a request.
C8_Witness ==
  /\ pc = "fn"
  /\ i = 2
  /\ Len(wire) = 2
  /\ wire[1].m = "BeginTransaction"
  /\ wire[2].m = "Put"
  /\ lastCommit.resp = "CONCURRENT_TRANSACTION"
  /\ Begun(wire) # lastCommit.tx

\* C9: once an attempt has pinned an entity group, a Put, Get or Delete of
\* the same attempt whose keys are complete and whose entity group (that of
\* its first key or entity) is another one raises bad-request, dispatches
\* nothing and leaves the pinned group and the handle as they were.
C9_OtherGroupRejected ==
  (/\ lastOp.op \in StoreOps
   /\ lastOp.scope # NoFrame
   /\ lastOp.before.grp # <<>>
   /\ lastOp.first # <<>>
   /\ lastOp.first # lastOp.before.grp
   /\ lastOp.exc # "BadKeyError")
    => /\ lastOp.exc = "BadRequestError"
       /\ lastOp.calls = <<>>
       /\ Entry(txes, lastOp.scope) = lastOp.before.tx
       /\ Entry(tx_entity_groups, lastOp.scope) = lastOp.before.grp

C9_Witness ==
  /\ lastOp.op = "Delete"
  /\ lastOp.scope # NoFrame
  /\ lastOp.before.grp = <<"A">>
  /\ lastOp.first = <<"B">>
  /\ lastOp.grps = {"B"}
  /\ lastOp.exc = "BadRequestError"
  /\ Entry(tx_entity_groups, lastOp.scope) = <<"A">>

\* C10: inside a transaction a Get whose keys span more than one entity
\* group is not dispatched, so every key of a Get request that carries a
\* handle lies in the pinned group of its transaction.
C10_CrossGroupGet ==
  (lastOp.op = "Get" /\ lastOp.scope # NoFrame)
    => /\ Cardinality(lastOp.grps) > 1 => (Dispatched = {} /\ lastOp.exc # NoExc)
       /\ \A n \in Dispatched :
            lastOp.calls[n].tx # <<>>
              => \A g \in lastOp.calls[n].grps :
                   <<g>> = Entry(tx_entity_groups, lastOp.scope)

QueryOps == {"Query.Run", "Query.Get"}

\* C11: Query.Run() and Query.Get(n) called inside the user function of a
\* running RunInTransaction send no wire call (no RunQuery, no Next, no
\* BeginTransaction) and leave the registries as they were; unless the
\* argument n itself is refused (bad-argument), the call raises bad-request.
C11_QueryInTransaction ==
  (lastOp.op \in QueryOps /\ lastOp.scope # NoFrame)
    => /\ lastOp.calls = <<>>
       /\ lastOp.exc \in {"BadRequestError", "BadArgumentError"}
       /\ lastOp.op = "Query.Run" => lastOp.exc = "BadRequestError"
       /\ Entry(txes, lastOp.scope) = lastOp.before.tx
       /\ Entry(tx_entity_groups, lastOp.scope) = lastOp.before.grp

\* Query.Get was refused with bad-request before the attempt had begun a
\* transaction, and the attempt still has none.
C11_Witness ==
  /\ lastOp.op = "Query.Get"
  /\ lastOp.scope # NoFrame
  /\ lastOp.exc = "BadRequestError"
  /\ lastOp.before.tx = <<>>
  /\ pc = "fn"
  /\ frame \notin DOMAIN txes

\* C12: a Put of entities that do not all lie in the entity group of the
\* first one raises bad-request and sends nothing (no BeginTransaction, no
\* Put), inside and outside a transaction, and leaves the registries as they
\* were; so every Put request sent holds entities of one entity group.
C12_PutOneGroup ==
  lastOp.op = "Put"
    => /\ Cardinality(lastOp.grps) > 1
            => /\ lastOp.exc = "BadRequestError"
               /\ lastOp.calls = <<>>
               /\ Entry(txes, lastOp.scope) = lastOp.before.tx
               /\ Entry(tx_entity_groups, lastOp.scope) = lastOp.before.grp
       /\ \A n \in Dispatched : Cardinality(lastOp.calls[n].grps) = 1

\* A mixed Put was refused inside a transaction whose pinned group is the
\* group of the first entity.
C12_Witness ==
  /\ lastOp.op = "Put"
  /\ lastOp.scope # NoFrame
  /\ lastOp.grps = {"A", "B"}
  /\ lastOp.before.grp = lastOp.first
  /\ lastOp.before.tx # <<>>
  /\ lastOp.exc = "BadRequestError"
  /\ lastOp.calls = <<>>

\* C15: a Delete of complete keys that span more than one entity group
\* raises bad-request and sends nothing (no BeginTransaction, no Delete),
\* inside and outside a transaction, and leaves the registries as they were.
C15_DeleteOneGroup ==
  (lastOp.op = "Delete" /\ Cardinality(lastOp.grps) > 1
     /\ lastOp.exc # "BadKeyError")
    => /\ lastOp.exc = "BadRequestError"
       /\ lastOp.calls = <<>>
       /\ Entry(txes, lastOp.scope) = lastOp.before.tx
       /\ Entry(tx_entity_groups, lastOp.scope) = lastOp.before.grp

\* A Delete across two groups was refused outside any transaction.
C15_Witness ==
  /\ lastOp.op = "Delete"
  /\ lastOp.scope = NoFrame
  /\ pc = "app"
  /\ lastOp.grps = {"A", "B"}
  /\ lastOp.exc = "BadRequestError"
  /\ lastOp.calls = <<>>

\* C13: when the store answered a Put with exactly one key per entity, Put
\* raises nothing, the n-th entity holds the n-th returned key afterwards, so
\* each entity's key is complete, and the keys are returned in the shape of
\* the argument; when the number of keys differs from the number of entities,
\* Put raises internal-error and every entity keeps the key it had.
C13_PutCopiesKeys ==
  (io.op = "Put" /\ io.answered)
    => IF Len(io.answer) = Len(io.before)
       THEN /\ io.exc = NoExc
            /\ Len(io.after) = Len(io.before)
            /\ \A n \in 1..Len(io.before) :
                  /\ io.after[n] = io.answer[n]
                  /\ io.after[n].id # NoId
            /\ io.ret.items = io.answer
            /\ io.ret.shape = (IF io.multiple THEN "list" ELSE "scalar")
       ELSE /\ io.exc = "InternalError"
            /\ io.after = io.before
            /\ io.ret.shape = "none"

\* Two entities, one without id and one with id 1, were given the ids 2 and 1.
C13_Witness ==
  /\ io.op = "Put"
  /\ io.answered
  /\ io.multiple
  /\ Len(io.before) = 2
  /\ io.before[1].id = NoId
  /\ io.before[2].id = 1
  /\ Len(io.answer) = 2
  /\ io.answer[1].id = 2
  /\ io.answer[2].id = 1
  /\ io.after = io.answer
  /\ io.exc = NoExc

\* C14: when the store answered a Get with one slot per key, a Get of a
\* single key returns the entity of the slot, or raises entity-not-found if
\* the slot holds none; a Get of a sequence (also of one key) returns a list
\* whose n-th element is the entity of the n-th slot, or None if the slot
\* holds none; and a Get of a sequence never raises entity-not-found.
C14_GetShape ==
  io.op = "Get"
    => /\ io.multiple => io.exc # "EntityNotFoundError"
       /\ (io.answered /\ Len(io.answer) = Len(io.before))
            => IF io.multiple
               THEN /\ io.exc = NoExc
                    /\ io.ret.shape = "list"
                    /\ Len(io.ret.items) = Len(io.before)
                    /\ \A n \in 1..Len(io.before) :
                          io.ret.items[n] = io.answer[n]
               ELSE IF io.answer[1] = <<>>
               THEN /\ io.exc = "EntityNotFoundError"
                    /\ io.ret.shape = "none"
               ELSE /\ io.exc = NoExc
                    /\ io.ret = Returned("scalar", <<io.answer[1]>>)

\* A list of one key whose entity is missing: the result is a list holding
\* None.
C14_Witness ==
  /\ io.op = "Get"
  /\ io.answered
  /\ io.multiple
  /\ Len(io.before) = 1
  /\ io.answer = <<(<<>>)>>
  /\ io.exc = NoExc
  /\ io.ret = Returned("list", <<(<<>>)>>)

\* The set_filter about to be recorded in qcall' names an inequality on a
\* property other than that of an inequality filter the Query holds.
OnOtherProperty(filter) ==
  /\ FilterMatch(filter) # <<>>
  /\ FilterMatch(filter)[1].operator \in INEQUALITY_OPERATORS
  /\ \E g \in InequalityFilters(q) : PropertyOf(g) # PropertyOf(filter)

\* C16: whatever set_filter, remove_filter, update and order calls were made,
\* accepted or not, the inequality filters of the Query all name one
\* property; and a set_filter with an inequality on another property is
\* refused, with bad-filter unless the value itself is refused (bad-value),
\* and leaves the filters, the insertion indexes and counter, and the
\* inequality property and count as they were.
C16_OneInequalityProperty ==
  /\ [](\A f, g \in InequalityFilters(q) : PropertyOf(f) = PropertyOf(g))
  /\ [][(qcall'.op = "set_filter" /\ OnOtherProperty(qcall'.arg[1]))
          => /\ qcall'.exc \in {"BadFilterError", "BadValueError"}
             /\ qcall'.arg[2] # "Blob" => qcall'.exc = "BadFilterError"
             /\ q'.filters = q.filters
             /\ q'.filter_order = q.filter_order
             /\ q'.filter_counter = q.filter_counter
             /\ q'.inequality_prop = q.inequality_prop
             /\ q'.inequality_count = q.inequality_count]_vars

\* The Query holds two inequality filters on age and has just refused one
\* on name.
C16_Witness ==
  /\ qcall.op = "set_filter"
  /\ qcall.arg = <<(<<"name", "<">>), "v1">>
  /\ qcall.exc = "BadFilterError"
  /\ InequalityFilters(q) = {<<"age", "<">>, <<"age", ">=">>}
  /\ q.inequality_prop = <<"age">>

\* C17: whatever set_filter, remove_filter, update and order calls were made,
\* whenever the Query holds an inequality filter and a sort order, the
\* property of its first sort order is the property of its inequality
\* filters.
C17_FirstOrderIsInequality ==
  (InequalityFilters(q) # {} /\ q.orderings # <<>>)
    => \A f \in InequalityFilters(q) : PropertyOf(f) = q.orderings[1].property

\* An inequality on age was accepted after the orders (age, name) were set.
C17_Witness ==
  /\ qcall.op = "set_filter"
  /\ qcall.arg[1] = <<"age", "<">>
  /\ qcall.exc = NoExc
  /\ Len(q.orderings) = 2
  /\ q.orderings[1].property = "age"
  /\ InequalityFilters(q) = {<<"age", "<">>}

\* The order about to be recorded in qcall' starts with a property other
\* than that of an inequality filter the Query holds.
OrderOnOtherProperty(orderings) ==
  /\ orderings # <<>>
  /\ \E f \in InequalityFilters(q) : PropertyOf(f) # orderings[1].property

\* C18 as stated: an order whose first property differs from the property of
\* an inequality filter of the Query raises bad-filter and leaves the sort
\* orders as they were.
C18_OrderBadFilter ==
  [][(qcall'.op = "order" /\ OrderOnOtherProperty(qcall'.arg))
      => /\ qcall'.exc = "BadFilterError"
         /\ q'.orderings = q.orderings]_vars

\* C18: an order whose first property differs from the property of an
\* inequality filter of the Query raises bad-argument and leaves the sort
\* orders as they were.
C18_OrderRefused ==
  [][(qcall'.op = "order" /\ OrderOnOtherProperty(qcall'.arg))
      => /\ qcall'.exc = "BadArgumentError"
         /\ q'.orderings = q.orderings]_vars

\* order(name) was refused by a Query with an inequality on age, which keeps
\* its order on age.
C18_Witness ==
  /\ qcall.op = "order"
  /\ qcall.arg = <<OrderOf("name", "omitted")>>
  /\ qcall.exc = "BadArgumentError"
  /\ InequalityFilters(q) = {<<"age", "<">>}
  /\ q.orderings = <<OrderOf("age", ASCENDING)>>

Mutators == {"set_filter", "remove_filter", "update", "order", "ancestor",
             "hint"}

\* C19: a count() that follows a successful set_filter, remove_filter,
\* update, order, ancestor or hint sends a wire Count: it does not answer
\* from the cache.
C19_MutatorsInvalidate ==
  [][(qcall.op \in Mutators /\ qcall.exc = NoExc /\ qcall'.op = "count")
      => qcall'.wire = <<"Count">>]_vars

\* C20: a count() that follows a successful count() sends no wire call and
\* returns the same value, whatever that value is; and a count() whose wire
\* call failed leaves the cache as it was.
C20_CountCached ==
  /\ [][(qcall.op = "count" /\ qcall.exc = NoExc /\ qcall'.op = "count")
          => /\ qcall'.wire = <<>>
             /\ qcall'.exc = NoExc
             /\ qcall'.ret = qcall.ret]_vars
  /\ [][(qcall'.op = "count" /\ qcall'.exc # NoExc)
          => q'.cached_count = q.cached_count]_vars

\* Two Query objects that differ at most in the cached count and in the
\* number the next new filter will get.
SameQuery(a, b) ==
  [a EXCEPT !.cached_count = <<>>, !.filter_counter = 0]
    = [b EXCEPT !.cached_count = <<>>, !.filter_counter = 0]

\* set_filter(filter, value) is accepted, and remove_filter(filter) after it
\* leaves the Query as it was before the two calls.
SetThenRemoveRestores(qq, filter, value) ==
  LET set == QuerySetItem(qq, filter, value)
  IN set.exc = NoExc =>
       /\ QueryDelItem(set.q, filter).exc = NoExc
       /\ SameQuery(QueryDelItem(set.q, filter).q, qq)

\* C21 as stated: from every state of the Query and for every filter and
\* value that set_filter accepts, set_filter followed by remove_filter of the
\* same filter leaves the filters, their insertion order, the inequality
\* property and count and the orderings as they were.
C21_SetThenRemove ==
  \A filter \in FilterStrings, value \in FilterValues :
    SetThenRemoveRestores(q, filter, value)

\* C21: from every state of the Query and for every filter that it does not
\* hold yet, with every value that set_filter accepts, set_filter followed by
\* remove_filter of the same filter leaves the filters, their insertion
\* order, the inequality property and count and the orderings as they were.
C21_SetNewThenRemove ==
  \A filter \in FilterStrings, value \in FilterValues :
    filter \notin DOMAIN q.filters => SetThenRemoveRestores(q, filter, value)

\* remove_filter has just removed an inequality filter that the call before
\* it had added to a Query holding another filter.
C21_Witness ==
  /\ qcall.op = "remove_filter"
  /\ qcall.exc = NoExc
  /\ qcall.arg = <<"just set">>
  /\ q.filters # <<>>
  /\ \E filter \in FilterStrings \ DOMAIN q.filters :
       /\ FilterMatch(filter) # <<>>
       /\ FilterMatch(filter)[1].operator \in INEQUALITY_OPERATORS
       /\ QuerySetItem(q, filter, "v1").exc = NoExc

\* C22: the protocol buffer of the Query holds one filter for each filter the
\* Query holds, in the order in which the calls added them (a filter set
\* again keeps its place, one removed and added again goes last), and the
\* orderings of the last accepted Order, in the order given.
C22_ToWireOrder ==
  qcall.op = "to_wire" =>
    /\ qcall.exc = NoExc
    /\ Len(qcall.ret[1].filter) = Cardinality(DOMAIN q.filters)
    /\ qcall.ret[1].filter =
         [n \in 1..Len(given.filters) |->
            PbFilter(given.filters[n], q.filters[given.filters[n]])]
    /\ qcall.ret[1].order = Normalized(given.orderings)

\* The protocol buffer was built for a Query that was given three filters,
\* lost the first of them and holds two, and that has two orderings.
C22_Witness ==
  /\ qcall.op = "to_wire"
  /\ qcall.exc = NoExc
  /\ q.filter_counter = 3
  /\ Len(qcall.ret[1].filter) = 2
  /\ q.filter_order[given.filters[1]] = 1
  /\ Len(qcall.ret[1].order) = 2

C24_NextPrefetches ==
  /\ []((/\ itcall.op = "next"
          /\ itcall.exc = NoExc
          /\ results.full
          /\ ~results.batched)
         => results.nexts
              = (results.consumed + BUFFER_SIZE - 1) \div BUFFER_SIZE)
  /\ [][(itcall'.op = "next" /\ results'.nexts # results.nexts)
          => /\ it.buffer = <<>>
             /\ itcall'.wire = <<BUFFER_SIZE>>
             /\ results'.nexts = results.nexts + 1]_vars

\* Of a result set of 45, next() has returned 23 entities and two Next calls
\* were sent.
C24_Witness ==
  /\ itcall.op = "next"
  /\ itcall.exc = NoExc
  /\ results.size = 45
  /\ results.consumed = 23
  /\ results.full
  /\ ~results.batched
  /\ results.nexts = 2

Incoming == conv.arg.property \o conv.arg.raw_property

\* The first n properties of a list carry the `multiple` field and have
\* names of their own.
WellFormed(props, n) ==
  /\ \A m \in 1..n : props[m].multiple # <<>>
  /\ \A m, k \in 1..n : props[m].name = props[k].name => m = k

\* C26: reading a protocol buffer with a complete key fails with the
\* corrupt-data error (datastore_errors.Error) and yields no entity whenever
\* a property of it lacks the `multiple` field, at whatever place of the
\* indexed or raw list it stands, the first included.
C26_MissingMarker ==
  (conv.op = "from_wire" /\ conv.arg.key.id # NoId) =>
    \A n \in 1..Len(Incoming) :
      (Incoming[n].multiple = <<>> /\ WellFormed(Incoming, n - 1))
        => conv.exc = "Error" /\ conv.ret = <<>>

\* What reading a list of properties has to give, acc being the property
\* map read so far: <<>> for the corrupt-data error, else <<the map>>.  The
\* first sighting of a name stores a scalar or a list of one; a later one
\* fails when it is not marked multiple and appends otherwise.
RECURSIVE Sightings(_, _)
Sightings(props, acc) ==
  IF props = <<>> THEN <<acc>>
  ELSE LET prop == Head(props)
           name == prop.name
       IN IF name \notin DOMAIN acc
          THEN Sightings(Tail(props),
                         Assign(acc, name,
                                IF prop.multiple[1] THEN ListOf(<<prop.value>>)
                                ELSE Scalar(prop.value)))
          ELSE IF ~prop.multiple[1] THEN <<>>
          ELSE Sightings(Tail(props),
                         Assign(acc, name,
                                ListOf(Append(acc[name].items, prop.value))))

\* C27: reading a protocol buffer with a complete key whose properties all
\* carry the `multiple` field stores the first sighting of a name as a scalar
\* or a list of one, fails with the corrupt-data error on a later sighting
\* that is not marked multiple and appends every other later sighting, in
\* wire order, whatever the first sighting was marked.
C27_Sightings ==
  (/\ conv.op = "from_wire"
   /\ conv.arg.key.id # NoId
   /\ \A n \in 1..Len(Incoming) : Incoming[n].multiple # <<>>)
  => IF Sightings(Incoming, <<>>) = <<>>
     THEN conv.exc = "Error" /\ conv.ret = <<>>
     ELSE /\ conv.exc = NoExc
          /\ conv.ret = <<[key |-> conv.arg.key,
                           properties |-> Sightings(Incoming, <<>>)[1]]>>

\* C28: an Entity with a complete key, converted to its protocol buffer and
\* read back, gives an Entity with the same key and the same property map:
\* scalars stay scalars, lists stay lists with their elements in order, in
\* the indexed and in the raw list alike.
C28_RoundTrip ==
  (conv.op = "to_wire, from_wire" /\ conv.arg.key.id # NoId)
    => conv.exc = NoExc /\ conv.ret = <<conv.arg>>

\* The Entity read back had a list of two different indexed values and a
\* list that went to the raw properties.
C28_Witness ==
  /\ conv.op = "to_wire, from_wire"
  /\ conv.arg.key.id # NoId
  /\ DOMAIN conv.arg.properties = {"a", "b"}
  /\ conv.arg.properties["a"] = ListOf(<<"v2", "v1">>)
  /\ conv.arg.properties["b"] = ListOf(<<"Blob", "Blob">>)
  /\ Len(conv.pb.property) = 2
  /\ Len(conv.pb.raw_property) = 2
  /\ conv.ret = <<conv.arg>>

\* C29 as stated: when the store answers the wire call of Put, Get, Delete,
\* RunQuery, Next or Count with an error code, the operation raises the error
\* of that code, and internal-error for a code that is not known.
C29_CodeByCodeInternal ==
  (fault.sent /\ fault.code # OK) =>
    fault.exc = CASE fault.code = "BAD_REQUEST" -> "BadRequestError"
                  [] fault.code = "CONCURRENT_TRANSACTION"
                       -> "TransactionFailedError"
                  [] fault.code = "INTERNAL_ERROR" -> "InternalError"
                  [] fault.code = "NEED_INDEX" -> "NeedIndexError"
                  [] fault.code = "TIMEOUT" -> "Timeout"
                  [] OTHER -> "InternalError"

\* C29: when the store answers the wire call of Put, Get, Delete, RunQuery,
\* Next or Count with an error code, the operation raises the error of that
\* code, and the generic datastore error (the base class Error, which is not
\* internal-error) for a code that is not known.
C29_CodeByCode ==
  (fault.sent /\ fault.code # OK) =>
    fault.exc = CASE fault.code = "BAD_REQUEST" -> "BadRequestError"
                  [] fault.code = "CONCURRENT_TRANSACTION"
                       -> "TransactionFailedError"
                  [] fault.code = "INTERNAL_ERROR" -> "InternalError"
                  [] fault.code = "NEED_INDEX" -> "NeedIndexError"
                  [] fault.code = "TIMEOUT" -> "Timeout"
                  [] OTHER -> "Error"

\* The Next call of an Iterator was answered with a code that is not known
\* and the generic error was raised.
C29_Witness ==
  /\ fault.op = "Next"
  /\ fault.sent
  /\ fault.code = "UNKNOWN_CODE"
  /\ fault.exc = "Error"

\* C30: once RunInTransaction has ended, whichever way (value returned after
\* a Commit or without one, rollback sentinel, error of the user function,
\* retries exhausted, nested call refused), the two registries hold no entry
\* for its frame; while a run is on they hold none but its own, and a run
\* that starts finds no entry for its frame.
C30_ExitCleansRegistries ==
  /\ [](/\ RunEnded => (/\ frame \notin DOMAIN txes
                       /\ frame \notin DOMAIN tx_entity_groups)
        /\ pc = "app" => (txes = <<>> /\ tx_entity_groups = <<>>)
        /\ DOMAIN txes \subseteq {frame}
        /\ DOMAIN tx_entity_groups \subseteq {frame})
  /\ [][(outcome.kind # "running" /\ outcome'.kind = "running")
          => /\ frame' \notin DOMAIN txes'
             /\ frame' \notin DOMAIN tx_entity_groups']_vars

\* The user function raised an error of its own after a transaction was
\* begun: a Rollback was sent and RunInTransaction has raised the error.
C30_Witness ==
  /\ RunEnded
  /\ outcome.kind = "raised"
  /\ outcome.exc = "UserError"
  /\ rollbacks = 1
  /\ txes = <<>>
  /\ tx_entity_groups = <<>>

\* The transaction message of flow f's attempt: the handle the store
\* returned to its BeginTransaction, the unfilled handle when that call was
\* sent and has returned none, nothing before it was sent.
Mine(f) ==
  IF flows[f].begun # <<>> THEN flows[f].begun
  ELSE IF flows[f].pinned # <<>> THEN <<UnsetHandle>>
  ELSE <<>>

\* C31: with two RunInTransaction invocations on two flows of control, their
\* steps interleaved in any order, every request, Commit and Rollback of a
\* flow that carries a transaction carries the one of that flow's own attempt
\* and never the handle the store returned to the other flow; the call that
\* sends BeginTransaction pins its own group, and a later call of the flow is
\* refused without a wire call exactly when its group differs from the group
\* the flow itself pinned.
C31_FlowsIsolated ==
  \A f \in Flows :
    LET run == flows[f]
    IN /\ \A n \in 1..Len(run.sent) :
            run.sent[n].tx # <<>> =>
              /\ run.sent[n].tx = Mine(f)
              /\ \A g \in Flows \ {f} : run.sent[n].tx # flows[g].begun
       /\ run.first # <<>> =>
            IF run.sent # <<>> /\ run.sent[1].m = "BeginTransaction"
            THEN run.pinned = run.first
            ELSE (run.sent = <<>> /\ run.exc = "BadRequestError")
                   <=> run.first # run.pinned

\* Both flows are in their functions with a transaction each, of different
\* handles and on different groups: flow 1 has just sent a request with its
\* handle, flow 2 has just been refused a call on the group flow 1 pinned.
C31_Witness ==
  /\ flows[1].pc = "fn" /\ flows[2].pc = "fn"
  /\ DOMAIN txes = {1, 2}
  /\ txes[1] # txes[2]
  /\ tx_entity_groups[1] = "A" /\ tx_entity_groups[2] = "B"
  /\ flows[1].begun = <<txes[1]>> /\ flows[2].begun = <<txes[2]>>
  /\ Len(flows[1].sent) = 1
  /\ flows[1].sent[1].m = "Put" /\ flows[1].sent[1].tx = <<txes[1]>>
  /\ flows[2].first = <<"A">>
  /\ flows[2].exc = "BadRequestError" /\ flows[2].sent = <<>>

\* C32: whatever set_filter, update and remove_filter calls were made, the
\* inequality count of the Query is the number of inequality filters it
\* holds, and its inequality property is unset exactly when it holds none.
C32_InequalityCount ==
  /\ q.inequality_count = Cardinality(InequalityFilters(q))
  /\ q.inequality_prop = <<>> <=> InequalityFilters(q) = {}

\* C33: whatever set_filter, setdefault, update and remove_filter calls were
\* made, the filters of the Query are the filters of its insertion index, the
\* protocol buffer holds a filter for each of them, and remove_filter of any
\* of them succeeds.
C33_MapIsIndex ==
  /\ DOMAIN q.filters = DOMAIN q.filter_order
  /\ qcall.op = "to_wire" =>
       Len(qcall.ret[1].filter) = Cardinality(DOMAIN q.filters)
  /\ \A filter \in DOMAIN q.filters : QueryDelItem(q, filter).exc = NoExc

\* C34: every Put, Get and Delete request sent inside the user function, and
\* every Commit and Rollback RunInTransaction sends, carries the handle that
\* the BeginTransaction of the same attempt returned; none is sent with the
\* handle of a BeginTransaction that failed.
C34_HandlesBegun ==
  /\ (lastOp.op \in StoreOps /\ lastOp.scope # NoFrame)
       => \A n \in Dispatched :
            /\ Begun(wire) # <<>>
            /\ lastOp.calls[n].tx = Begun(wire)
  /\ lastCommit.resp # "none"
       => /\ lastCommit.begun # <<>>
          /\ lastCommit.tx = lastCommit.begun
  /\ lastRollback.resp # "none"
       => /\ lastRollback.begun # <<>>
          /\ lastRollback.tx = lastRollback.begun

\* C35: whatever the store answers, next() signals the end of the results
\* only with the prefetch buffer empty and after a Next answer that said
\* there are no more results.
C35_EndOfStream ==
  (itcall.op = "next" /\ itcall.exc = "StopIteration")
    => /\ it.buffer = <<>>
       /\ ~it.more_results
       /\ ~results.more

====
